---------------------------- MODULE Spec2Model ----------------------------
(***************************************************************************)
(* A model of szfs, a read-only forensic reader for a ZFS pool.            *)
(*                                                                         *)
(* The repository is a library (src/src/*.rs) with several independent     *)
(* entry points (src/src/bin/*.rs).  Each part of the library that a       *)
(* property is about is modelled as its own state machine over its own     *)
(* variables; the variable "machine" says which one a behaviour runs, and  *)
(* the variables of the other machines stay at their idle value.           *)
(*                                                                         *)
(* Scaling.  TLC's integers are 32 bits wide, so the widths and the large  *)
(* strides of the source are scaled and named:                             *)
(*   U64Mod   the modulus of u64 arithmetic (2^64 in the source)           *)
(*   U32Mod   the modulus of u32 truncation (2^32 in the source)           *)
(*   DvaUnit  the unit of DVA offsets and block sizes (512 in the source)  *)
(*   MiB      the parity rotation stride and sweep window (2^20)           *)
(* The leaf geometry (4 MiB boot area, 256 KiB labels) keeps its values.   *)
(***************************************************************************)
EXTENDS Integers, Sequences, FiniteSets, TLC

VARIABLES
    machine,        \* which part of the program this behaviour runs
    \* ---- VdevFile (src/src/lib.rs:85) ----
    file_size,      \* VdevFile.file_size: raw size of the backing file
    device,         \* VdevFile.device: raw offset -> byte written so far
    leaf_req,       \* the last read/write/read_raw_label call and its outcome
    \* ---- VdevRaidz (src/src/lib.rs:242) ----
    devices,        \* VdevRaidz.devices: id -> leaf (file_size, device)
    ndevices,       \* VdevRaidz.ndevices
    nparity,        \* VdevRaidz.nparity
    asize,          \* VdevRaidz.asize: the sector size
    sector_cache,   \* VdevRaidz.sector_cache, most recently used first
    block_cache,    \* VdevRaidz.block_cache, most recently used first
    raidz_req,      \* the last VdevRaidz call and its outcome
    \* ---- zio.rs and yolo_block_recovery.rs over the pool ----
    vdev0,          \* what the vdev map holds under id 0
    yolo_feature,   \* cfg!(feature = "yolo")
    yolo_cache,     \* YOLO_CACHE: (checksum, psize) -> Some(offset) or None
    yolo_cache_file,\* yolo-cache.json
    checksum_map,   \* checksum-map.bin: one entry per sector
    zio_req,        \* the last dereference / find_block call and its outcome
    zio_ops,        \* number of calls made so far
    \* ---- bin/fs-walker.rs: the choice of the active uberblock ----
    label0,         \* the uberblock slots of label 0
    uberblocks,     \* the vector of parsed uberblocks
    walker_pc,      \* where main is
    walker_idx,     \* position of the search in `uberblocks`
    active_uberblock, \* uberblock_search_info
    raw_label,      \* the bytes read_raw_label(0) returned
    top_level_ashift, \* vdev_tree["ashift"] of the label
    \* ---- dmu.rs DNodeBase and bin/recover.rs over the pool ----
    file_list,      \* the fragments handed to aggregated_read_block
    dnode_req,      \* the last read / aggregated_read_block call and its outcome
    \* ---- zap.rs: the dump of one fat ZAP leaf ----
    zap_leaf,       \* the ZapLeaf: hash_table and chunks
    zap_hashmap,    \* the HashMap the names and values are dumped into
    zap_req,        \* the last dump_contents_into call and its outcome
    \* ---- bin/surgeon.rs and bin/apply-binpatch.rs: the binary patch ----
    patch_pc,       \* which of the two programs runs, or how the last ended
    current_squashfs_block_file_offset, \* surgeon's position in the file
    binary_patch_file, \* squashfs-surgically-recovered-blocks.binpatch
    patch_emitted,  \* the records surgeon wrote, in order
    patch_offset,   \* apply-binpatch's position in the patch
    patch_target,   \* the target file: offset -> byte written
    patch_applied,  \* the records apply-binpatch wrote, in order
    \* ---- bin/build-checksum-table.rs over the pool ----
    table_pc,       \* where main is, or how the last run ended
    last_off,       \* the offset the run resumed from
    table_off,      \* `off` of the loop over the sectors
    checksum_map_file, \* the bytes of checksum-map.bin
    table_runs,     \* number of runs started so far
    \* ---- bin/undelete.rs: search_le_bytes_for_dnodes over the pool ----
    undelete_data,  \* `data`: the sectors that are searched
    undelete_pos,   \* number of sectors the loop has gone over
    undelete_res,   \* `res`: hash -> fragment
    undelete_pc,    \* where the search is, or how it ended
    \* ---- yolo_block_recovery.rs: the parallel sweep of find_block_with_fletcher4_checksum ----
    sweep_req, \* the checksum and psize of the call, and how it ended
    sweep_pc, \* worker -> where the worker is
    sweep_local, \* worker -> the accumulator of its fold and its candidate
    sweep_files, \* the open handles of checksum-map.bin: their positions
    sweep_mutex, \* the worker that holds the lock on the vdevs, or 0
    sweep_todo, \* the windows no worker has taken yet
    sweep_found, \* the matches find_any has verified
    \* ---- bin/undelete.rs: build_graph over the recovered fragments ----
    graph_nodes, \* `nodes`: hash -> fragment (its kind and its children)
    graph_pool, \* what the vdevs answer: the (parent, child) pairs found by dereferencing
    graph_hashes, \* `hashes`: the keys of the map in the order of its iterator
    graph_roots, \* `roots`
    graph_i, \* `i` of the outer loop
    graph_j, \* `j` of the inner loop
    graph_pc, \* where build_graph is, or how it ended
    \* ---- bin/recover.rs main: the copy of the blocks ----
    output_file, \* the bytes written to recovered-file.bin
    bad_blocks, \* the ids of the blocks no fragment could read
    recover_block_id, \* block_id of the loop
    recover_pc, \* "idle", "loop", "done" or "panic"
    \* ---- bin/surgeon.rs main: should_attempt_recovery ----
    bad_blocks_info, \* the block numbers of bad-block-info.json
    attempt_off, \* current_squashfs_block_file_offset of the loop
    attempt_req, \* the last squashfs block and what the loop decided for it
    \* ---- zio.rs DataVirtualAddress::dereference through gang headers ----
    gang_stack, \* the calls of dereference that have not returned, outermost first
    gang_ret, \* what the call that returned last handed to its caller
    gang_pc \* "idle", "run", "returned" or "stack_overflow"

leafVars == <<file_size, device, leaf_req>>

poolVars == <<devices, ndevices, nparity, asize, sector_cache, block_cache>>

zioVars == <<vdev0, yolo_feature, yolo_cache, yolo_cache_file, checksum_map,
             zio_req, zio_ops>>

\* What the actions of one machine leave alone: the other machines.
labelVars == <<raw_label, top_level_ashift>>

walkerVars ==
    <<label0, uberblocks, walker_pc, walker_idx, active_uberblock, labelVars>>

dnodeVars == <<file_list, dnode_req>>

\* The machines above the zio layer.
zapVars == <<zap_leaf, zap_hashmap, zap_req>>

upperVars == <<dnodeVars, zapVars>>

patchVars == <<patch_pc, current_squashfs_block_file_offset, binary_patch_file,
               patch_emitted, patch_offset, patch_target, patch_applied>>

tableVars == <<table_pc, last_off, table_off, checksum_map_file, table_runs>>

undeleteVars == <<undelete_data, undelete_pos, undelete_res, undelete_pc>>

sweepVars ==
    <<sweep_req, sweep_pc, sweep_local, sweep_files, sweep_mutex, sweep_todo,
      sweep_found>>

graphVars == <<graph_nodes, graph_pool, graph_hashes, graph_roots, graph_i, graph_j, graph_pc>>

recoverVars == <<output_file, bad_blocks, recover_block_id, recover_pc>>

attemptVars == <<bad_blocks_info, attempt_off, attempt_req>>

gangVars == <<gang_stack, gang_ret, gang_pc>>

\* The machines added after the tools; each is a group of its own.
laterVars == <<sweepVars, graphVars, recoverVars, attemptVars, gangVars>>

\* What the actions of sweep leave alone among the later machines.
sweepRest ==
    <<leafVars, raidz_req, walkerVars, upperVars, patchVars, tableVars,
      undeleteVars, graphVars, recoverVars, attemptVars, gangVars>>

\* What the actions of graph leave alone among the later machines.
graphRest ==
    <<leafVars, raidz_req, walkerVars, upperVars, patchVars, tableVars,
      undeleteVars, sweepVars, recoverVars, attemptVars, gangVars>>

\* What the actions of recover leave alone among the later machines.
recoverRest ==
    <<leafVars, raidz_req, walkerVars, upperVars, patchVars, tableVars,
      undeleteVars, sweepVars, graphVars, attemptVars, gangVars>>

\* What the actions of attempt leave alone among the later machines.
attemptRest ==
    <<leafVars, raidz_req, walkerVars, upperVars, patchVars, tableVars,
      undeleteVars, sweepVars, graphVars, recoverVars, gangVars>>

\* What the actions of gang leave alone among the later machines.
gangRest ==
    <<leafVars, raidz_req, walkerVars, upperVars, patchVars, tableVars,
      undeleteVars, sweepVars, graphVars, recoverVars, attemptVars>>

\* The machines of the stand-alone tools.
toolVars == <<patchVars, tableVars, undeleteVars, laterVars>>

leafOthers == <<toolVars, poolVars, raidz_req, zioVars, walkerVars, upperVars>>

raidzOthers == <<toolVars, leafVars, zioVars, walkerVars, upperVars>>

zioOthers == <<toolVars, leafVars, raidz_req, walkerVars, upperVars>>

walkerOthers == <<toolVars, leafVars, raidz_req, upperVars, labelVars>>

dnodeOthers == <<leafVars, raidz_req, walkerVars, zapVars, toolVars>>

zapOthers ==
    <<leafVars, poolVars, raidz_req, zioVars, walkerVars, dnodeVars, toolVars>>

patchOthers ==
    <<leafVars, poolVars, raidz_req, zioVars, walkerVars, upperVars, tableVars,
      undeleteVars, laterVars>>

tableOthers ==
    <<leafVars, raidz_req, zioVars, walkerVars, upperVars, patchVars,
      undeleteVars, laterVars>>

vars ==
    <<machine, leafVars, poolVars, raidz_req, zioVars, walkerVars, upperVars,
      toolVars>>

(***************************************************************************)
(* Integer widths.                                                         *)
(***************************************************************************)
U64Mod == 1073741824

\* The two outcomes of an arithmetic overflow: a build with overflow checks
\* panics, a build without them wraps.
OverflowOutcomes == {"panic", "wrap"}

Min(a, b) == IF a < b THEN a ELSE b

Max(a, b) == IF a > b THEN a ELSE b

CeilDiv(a, b) == IF a % b = 0 THEN a \div b ELSE (a \div b) + 1

\* `Body` applied to the value of `value`, computed once.
Bind(value, Body(_)) == CHOOSE r \in {Body(v) : v \in {value}} : TRUE

(***************************************************************************)
(* VdevFile: one leaf device.                                              *)
(***************************************************************************)
BootSize == 4 * 1024 * 1024

LabelSize == 256 * 1024

\* Body sizes of the leaves of the model.
MaxBody == 16

LeafSizes == {BootSize + 2 * LabelSize + MaxBody \div 2,
              BootSize + 2 * LabelSize + MaxBody}

\* The byte a leaf holds at a raw offset nobody wrote to.
OrigByte(x) == x % 7

\* VdevFile::read_raw: seek and read; a short read is an error.
read_raw(dev, R, offset_in_bytes, amount_in_bytes) ==
    IF offset_in_bytes + amount_in_bytes > R
    THEN [ok |-> FALSE, data |-> <<>>]
    ELSE [ok |-> TRUE,
          data |-> [i \in 1..amount_in_bytes |->
                      LET x == offset_in_bytes + i - 1
                      IN  IF x \in DOMAIN dev THEN dev[x] ELSE OrigByte(x)]]

\* VdevFile::write_raw: seek and write.
write_raw(dev, offset_in_bytes, data) ==
    [x \in (DOMAIN dev) \cup {offset_in_bytes + i - 1 : i \in 1..Len(data)} |->
        IF x >= offset_in_bytes /\ x < offset_in_bytes + Len(data)
        THEN data[x - offset_in_bytes + 1]
        ELSE dev[x]]

\* VdevFile::get_size
get_size(R) == R - BootSize - 2 * LabelSize

\* The bounds check VdevFile::read and VdevFile::write share: the raw offset
\* the request is moved to, or the reason it is refused.  `ovf` is what the
\* build does on overflow.
LeafTranslate(R, offset_in_bytes, amount, ovf) ==
    LET s1 == offset_in_bytes + BootSize
        moved == s1 % U64Mod
        s2 == moved + amount
    IN  IF (s1 >= U64Mod \/ s2 >= U64Mod) /\ ovf = "panic"
        THEN [res |-> "panic", raw |-> 0]
        ELSE IF (s2 % U64Mod) > R - 2 * LabelSize
             THEN [res |-> "err", raw |-> 0]
             ELSE [res |-> "ok", raw |-> moved]

\* The offsets and lengths the calls are made with.
LeafOffsets(R) ==
    {0, 1, get_size(R) - 1, get_size(R), get_size(R) + 1,
     U64Mod - BootSize - 1, U64Mod - BootSize, U64Mod - BootSize + 2 * LabelSize,
     U64Mod - 1}

LeafAmounts == 0..2

LeafData == {<<>>, <<9>>, <<9, 8>>}

\* VdevFile::read
LeafRead(offset_in_bytes, amount_in_bytes, ovf) ==
    /\ machine = "leaf"
    /\ LET t == LeafTranslate(file_size, offset_in_bytes, amount_in_bytes, ovf)
           r == read_raw(device, file_size, t.raw, amount_in_bytes)
       IN  leaf_req' = [op |-> "read", offset |-> offset_in_bytes,
                        amount |-> amount_in_bytes,
                        res |-> IF t.res = "ok" /\ ~r.ok THEN "err" ELSE t.res,
                        raw |-> t.raw,
                        data |-> IF t.res = "ok" /\ r.ok THEN r.data ELSE <<>>]
    /\ UNCHANGED <<machine, file_size, device, leafOthers>>

\* VdevFile::write
LeafWrite(offset_in_bytes, data, ovf) ==
    /\ machine = "leaf"
    /\ LET t == LeafTranslate(file_size, offset_in_bytes, Len(data), ovf)
       IN  /\ leaf_req' = [op |-> "write", offset |-> offset_in_bytes,
                           amount |-> Len(data), res |-> t.res, raw |-> t.raw,
                           data |-> data]
           /\ device' = IF t.res = "ok" THEN write_raw(device, t.raw, data)
                        ELSE device
    /\ UNCHANGED <<machine, file_size, leafOthers>>

\* The raw offset of a label, or -1 for an index that names none.
LabelOffset(R, label_index) ==
    CASE label_index = 0 -> 0
      [] label_index = 1 -> LabelSize
      [] label_index = 2 -> R - 2 * LabelSize
      [] label_index = 3 -> R - 1 * LabelSize
      [] OTHER -> -1

\* VdevFile::read_raw_label.  The 256 KiB of label bytes are not kept in the
\* request record, only where they were read from.
LeafReadLabel(label_index) ==
    /\ machine = "leaf"
    /\ LET at == LabelOffset(file_size, label_index)
       IN  leaf_req' = [op |-> "read_raw_label", offset |-> label_index,
                        amount |-> LabelSize,
                        res |-> IF at < 0 \/ at + LabelSize > file_size
                                THEN "err" ELSE "ok",
                        raw |-> Max(at, 0), data |-> <<>>]
    /\ UNCHANGED <<machine, file_size, device, leafOthers>>

NoRequest == [op |-> "none", offset |-> 0, amount |-> 0, res |-> "none",
              raw |-> 0, data |-> <<>>]

LeafIdle == file_size = 0 /\ device = <<>> /\ leaf_req = NoRequest

PoolIdle ==
    /\ devices = <<>> /\ ndevices = 0 /\ nparity = 0 /\ asize = 0
    /\ sector_cache = <<>> /\ block_cache = <<>>

RaidzIdle == raidz_req = NoRequest

ZioIdle ==
    /\ vdev0 = "none" /\ yolo_feature = FALSE /\ yolo_cache = <<>>
    /\ yolo_cache_file = {} /\ checksum_map = <<>>
    /\ zio_req = NoRequest /\ zio_ops = 0

LabelIdle == raw_label = <<>> /\ top_level_ashift = 0

WalkerIdle ==
    /\ label0 = <<>> /\ uberblocks = <<>> /\ walker_pc = "idle"
    /\ walker_idx = 0 /\ active_uberblock = <<>>

DNodeIdle == file_list = <<>> /\ dnode_req = NoRequest

ZapIdle == zap_leaf = <<>> /\ zap_hashmap = <<>> /\ zap_req = NoRequest

PatchIdle ==
    /\ patch_pc = "idle" /\ current_squashfs_block_file_offset = 0
    /\ binary_patch_file = <<>> /\ patch_emitted = <<>> /\ patch_offset = 0
    /\ patch_target = <<>> /\ patch_applied = <<>>

TableIdle ==
    /\ table_pc = "idle" /\ last_off = 0 /\ table_off = 0
    /\ checksum_map_file = <<>>
    /\ table_runs = 0

UndeleteIdle ==
    /\ undelete_data = <<>>
    /\ undelete_pos = 0
    /\ undelete_res = <<>>
    /\ undelete_pc = "idle"

SweepIdle ==
    /\ sweep_req = <<>> /\ sweep_pc = <<>> /\ sweep_local = <<>>
    /\ sweep_files = <<>> /\ sweep_mutex = 0 /\ sweep_todo = {}
    /\ sweep_found = {}

GraphIdle ==
    /\ graph_nodes = <<>> /\ graph_pool = {} /\ graph_hashes = <<>>
    /\ graph_roots = {} /\ graph_i = 0 /\ graph_j = 0 /\ graph_pc = "idle"

RecoverIdle ==
    /\ output_file = <<>>
    /\ bad_blocks = <<>>
    /\ recover_block_id = 0
    /\ recover_pc = "idle"

AttemptIdle ==
    /\ bad_blocks_info = {}
    /\ attempt_off = 0
    /\ attempt_req = [res |-> "none"]

GangIdle ==
    /\ gang_stack = <<>>
    /\ gang_ret = [res |-> "none", data |-> <<>>]
    /\ gang_pc = "idle"

\* The parts of the state a behaviour does not use stay idle.
IdleUnless(used) ==
    /\ ("leaf" \in used \/ LeafIdle)
    /\ ("pool" \in used \/ PoolIdle)
    /\ ("raidz" \in used \/ RaidzIdle)
    /\ ("zio" \in used \/ ZioIdle)
    /\ ("walker" \in used \/ WalkerIdle)
    /\ ("label" \in used \/ LabelIdle)
    /\ ("dnode" \in used \/ DNodeIdle)
    /\ ("zap" \in used \/ ZapIdle)
    /\ ("patch" \in used \/ PatchIdle)
    /\ ("table" \in used \/ TableIdle)
    /\ ("undelete" \in used \/ UndeleteIdle)
    /\ ("sweep" \in used \/ SweepIdle)
    /\ ("graph" \in used \/ GraphIdle)
    /\ ("recover" \in used \/ RecoverIdle)
    /\ ("attempt" \in used \/ AttemptIdle)
    /\ ("gang" \in used \/ GangIdle)

InitLeaf ==
    /\ machine = "leaf"
    /\ file_size \in LeafSizes
    /\ device = <<>>
    /\ leaf_req = NoRequest
    /\ IdleUnless({"leaf"})

\* Writes are capped so that the written bytes stay a finite set.
MaxWritten == 3

NextLeaf ==
    \/ \E o \in LeafOffsets(file_size), n \in LeafAmounts, ovf \in OverflowOutcomes :
          LeafRead(o, n, ovf)
    \/ \E o \in LeafOffsets(file_size), d \in LeafData, ovf \in OverflowOutcomes :
          /\ Cardinality(DOMAIN device) + Len(d) <= MaxWritten
          /\ LeafWrite(o, d, ovf)
    \/ \E i \in 0..5 : LeafReadLabel(i)

SpecLeaf == InitLeaf /\ [][NextLeaf]_vars

(***************************************************************************)
(* C4.  A body request the leaf accepts lies inside the body: it is        *)
(* accepted only when offset + length <= size(), it touches exactly the    *)
(* raw bytes [4 MiB + offset, 4 MiB + offset + length), so it never        *)
(* overlaps the boot area or one of the four labels; and read_raw_label    *)
(* of an index above 3 is an error.                                        *)
(***************************************************************************)
LeafRequestsStayInBody ==
    /\ (leaf_req.op \in {"read", "write"} /\ leaf_req.res = "ok") =>
          /\ leaf_req.offset + leaf_req.amount <= get_size(file_size)
          /\ leaf_req.raw = BootSize + leaf_req.offset
          /\ leaf_req.raw >= BootSize
          /\ leaf_req.raw + leaf_req.amount <= file_size - 2 * LabelSize
    /\ (leaf_req.op = "read_raw_label" /\ leaf_req.offset > 3) =>
          leaf_req.res = "err"

(***************************************************************************)
(* VdevRaidz: sectors striped over the leaves, with a sector cache.        *)
(***************************************************************************)
\* LruCache capacities (64_000 sectors and 32_000 blocks in the source).
SectorCacheCap == 2

BlockCacheCap == 2

\* lru::LruCache, as the list of its entries, most recently used first.
LruHas(cache, k) == \E i \in 1..Len(cache) : cache[i].key = k

LruIndex(cache, k) == CHOOSE i \in 1..Len(cache) : cache[i].key = k

LruWithout(cache, k) ==
    SelectSeq(cache, LAMBDA e : e.key # k)

\* LruCache::get / get_mut: the entry moves to the front.
LruGet(cache, k) == <<cache[LruIndex(cache, k)]>> \o LruWithout(cache, k)

\* LruCache::put: insert or replace at the front, drop the least recently used.
LruPut(cache, k, v, cap) ==
    LET all == <<[key |-> k, val |-> v]>> \o LruWithout(cache, k)
    IN  SubSeq(all, 1, Min(Len(all), cap))

\* A leaf of the pool with the given body bytes.
LeafOf(body) ==
    [file_size |-> BootSize + Len(body) + 2 * LabelSize,
     device |-> [x \in BootSize..(BootSize + Len(body) - 1) |-> body[x - BootSize + 1]]]

\* Vdev::read of leaf `d` (VdevFile::read).
DeviceRead(devs, d, offset_in_bytes, amount_in_bytes) ==
    IF d \notin DOMAIN devs
    THEN [ok |-> FALSE, data |-> <<>>]
    ELSE LET t == LeafTranslate(devs[d].file_size, offset_in_bytes,
                                amount_in_bytes, "wrap")
         IN  IF t.res # "ok"
             THEN [ok |-> FALSE, data |-> <<>>]
             ELSE read_raw(devs[d].device, devs[d].file_size, t.raw, amount_in_bytes)

\* read_sector with the two quotients exchanged: the sector index is split
\* row-first instead of device-first.
read_sector_by_rows(cache, sector_index) ==
    IF LruHas(cache, sector_index)
    THEN [ok |-> TRUE, data |-> cache[LruIndex(cache, sector_index)].val,
          cache |-> LruGet(cache, sector_index)]
    ELSE LET device_sector_index == sector_index % ndevices
             device_number == sector_index \div ndevices
         IN  Bind(DeviceRead(devices, device_number,
                             (device_sector_index * asize) % U64Mod, asize),
                  LAMBDA res :
                      IF ~res.ok
                      THEN [ok |-> FALSE, data |-> <<>>, cache |-> cache]
                      ELSE [ok |-> TRUE, data |-> res.data,
                            cache |-> LruPut(cache, sector_index, res.data,
                                             SectorCacheCap)])

\* VdevRaidz::read_sector: the sector and the cache after the call.  The
\* product device_sector_index * asize is a u64 and wraps in a build without
\* overflow checks.
read_sector(cache, sector_index) ==
    IF LruHas(cache, sector_index)
    THEN [ok |-> TRUE, data |-> cache[LruIndex(cache, sector_index)].val,
          cache |-> LruGet(cache, sector_index)]
    ELSE LET device_sector_index == sector_index \div ndevices
             device_number == sector_index % ndevices
         IN  Bind(DeviceRead(devices, device_number,
                             (device_sector_index * asize) % U64Mod, asize),
                  LAMBDA res :
                      IF ~res.ok
                      THEN [ok |-> FALSE, data |-> <<>>, cache |-> cache]
                      ELSE [ok |-> TRUE, data |-> res.data,
                            cache |-> LruPut(cache, sector_index, res.data,
                                             SectorCacheCap)])

\* The loop of VdevRaidz::read over sectors first..last: it stops at the
\* first sector that cannot be read.
RECURSIVE ReadSectors(_, _, _)
ReadSectors(cache, first, last) ==
    IF first > last
    THEN [ok |-> TRUE, data |-> <<>>, cache |-> cache]
    ELSE Bind(read_sector(cache, first), LAMBDA r :
             IF ~r.ok
             THEN r
             ELSE Bind(ReadSectors(r.cache, first + 1, last), LAMBDA rest :
                      [ok |-> rest.ok,
                       data |-> IF rest.ok THEN r.data \o rest.data ELSE <<>>,
                       cache |-> rest.cache]))

\* Vec::resize to a shorter length.
Truncate(data, n) == SubSeq(data, 1, Min(Len(data), n))

\* VdevRaidz::read: the bytes and the cache after the call.
RaidzReadFrom(cache, offset_in_bytes, amount_in_bytes) ==
    IF amount_in_bytes = 0
    THEN [ok |-> TRUE, data |-> <<>>, cache |-> cache]
    ELSE LET first_sector_index == offset_in_bytes \div asize
             first_sector_offset == offset_in_bytes % asize
         IN  Bind(read_sector(cache, first_sector_index), LAMBDA first :
             LET head == SubSeq(first.data, first_sector_offset + 1,
                                Len(first.data))
                 size_remaining == amount_in_bytes - Len(head)
                 sectors_to_read == CeilDiv(size_remaining, asize)
             IN  IF ~first.ok
                 THEN first
                 ELSE IF Len(head) >= amount_in_bytes
                 THEN [ok |-> TRUE, data |-> Truncate(head, amount_in_bytes),
                       cache |-> first.cache]
                 ELSE Bind(ReadSectors(first.cache, first_sector_index + 1,
                                       first_sector_index + sectors_to_read),
                           LAMBDA rest :
                               [ok |-> rest.ok,
                                data |-> IF rest.ok
                                         THEN Truncate(head \o rest.data,
                                                       amount_in_bytes)
                                         ELSE <<>>,
                                cache |-> rest.cache]))

\* VdevRaidz::get_size
RaidzSize ==
    LET sizes == {get_size(devices[d].file_size) : d \in DOMAIN devices}
    IN  (CHOOSE m \in sizes : \A x \in sizes : m <= x) * ndevices

\* Vdev::read on the RAIDZ vdev.
RaidzRead(offset_in_bytes, amount_in_bytes) ==
    /\ machine = "raidz"
    /\ LET r == RaidzReadFrom(sector_cache, offset_in_bytes, amount_in_bytes)
       IN  /\ sector_cache' = r.cache
           /\ raidz_req' = [op |-> "read", offset |-> offset_in_bytes,
                            amount |-> amount_in_bytes,
                            res |-> IF r.ok THEN "ok" ELSE "err",
                            raw |-> 0, data |-> r.data]
    /\ UNCHANGED <<machine, devices, ndevices, nparity, asize, block_cache,
                   raidzOthers>>

\* VdevRaidz::read_sector called directly.
RaidzReadSector(sector_index) ==
    /\ machine = "raidz"
    /\ LET r == read_sector(sector_cache, sector_index)
       IN  /\ sector_cache' = r.cache
           /\ raidz_req' = [op |-> "read_sector", offset |-> sector_index,
                            amount |-> asize,
                            res |-> IF r.ok THEN "ok" ELSE "err",
                            raw |-> 0, data |-> r.data]
    /\ UNCHANGED <<machine, devices, ndevices, nparity, asize, block_cache,
                   raidzOthers>>

\* The pools of the model: every leaf has BodyLen bytes, and every byte of
\* the pool is different, so that a byte names the place it was read from.
BodyLen == 32

PoolByte(d, x) == d * BodyLen + x

IdentityPool(n) == [d \in 0..(n - 1) |-> LeafOf([i \in 1..BodyLen |-> PoolByte(d, i - 1)])]

\* VdevRaidz::from_vdevs
InitRaidz ==
    /\ machine = "raidz"
    /\ ndevices \in 3..4
    /\ nparity \in 1..2
    /\ nparity < ndevices
    /\ asize \in {16, 32}
    /\ devices = IdentityPool(ndevices)
    /\ sector_cache = <<>>
    /\ block_cache = <<>>
    /\ raidz_req = NoRequest
    /\ IdleUnless({"pool", "raidz"})

\* The requests of the model: offsets at most one byte away from a sector
\* boundary, amounts at most one byte more than a whole number of sectors.
RaidzOffsets ==
    {s * asize + d : s \in 0..(RaidzSize \div asize), d \in {0, asize - 1}}

RaidzAmounts ==
    {0, 1, asize, asize + 1, 2 * asize + 1}

NextRaidz ==
    \/ \E o \in RaidzOffsets, n \in RaidzAmounts : RaidzRead(o, n)
    \/ \E s \in 0..(RaidzSize \div asize) : RaidzReadSector(s)

SpecRaidz == InitRaidz /\ [][NextRaidz]_vars

\* The byte of leaf `d` at offset `x` of its body.
DeviceByte(d, x) == devices[d].device[BootSize + x]

\* Offset `x` lies in the body of leaf `d`.
InBody(d, x) == (BootSize + x) \in DOMAIN devices[d].device

\* 1 MiB, the unit of the parity rotation (scaled with the pool).
MiB == 64

\* Columns 0 and 1 exchanged when the offset lies in an odd MiB and P = 1.
SwapColumn(c, o) ==
    IF nparity = 1 /\ (o \div MiB) % 2 # 0
    THEN (IF c = 0 THEN 1 ELSE IF c = 1 THEN 0 ELSE c)
    ELSE c

RaidzReadOk == raidz_req.op = "read" /\ raidz_req.res = "ok"

(***************************************************************************)
(* C5 (as the code behaves): a successful VdevRaidz::read at offset o      *)
(* returns exactly the requested number of bytes, and byte k is the byte   *)
(* of device s mod N at per-device offset (s / N) * A + t, with            *)
(* s = (o + k) / A and t = (o + k) mod A; no column is exchanged at this   *)
(* layer, whatever the parity and the offset.                              *)
(***************************************************************************)
RaidzReadMapsSectorsRoundRobin ==
    RaidzReadOk =>
        /\ Len(raidz_req.data) = raidz_req.amount
        /\ \A k \in 0..(raidz_req.amount - 1) :
              LET s == (raidz_req.offset + k) \div asize
                  t == (raidz_req.offset + k) % asize
              IN  /\ InBody(s % ndevices, (s \div ndevices) * asize + t)
                  /\ raidz_req.data[k + 1] =
                      DeviceByte(s % ndevices, (s \div ndevices) * asize + t)

\* A single-parity read in an odd MiB that took bytes from columns 0 and 1.
RaidzReadInOddMiB ==
    /\ RaidzReadOk
    /\ nparity = 1
    /\ (raidz_req.offset \div MiB) % 2 = 1
    /\ raidz_req.amount > asize
    /\ \E k \in 0..(raidz_req.amount - 1) :
          ((raidz_req.offset + k) \div asize) % ndevices = 0

(***************************************************************************)
(* C5 (as stated): byte k of a RAIDZ read at offset o is the byte of       *)
(* device s mod N, columns 0 and 1 exchanged iff P = 1 and floor(o / MiB)  *)
(* is odd, at per-device offset (s / N) * A + t.                           *)
(***************************************************************************)
RaidzReadSwapsColumnsInOddMiB ==
    RaidzReadOk =>
        \A k \in 0..(raidz_req.amount - 1) :
            LET s == (raidz_req.offset + k) \div asize
                t == (raidz_req.offset + k) % asize
            IN  /\ InBody(SwapColumn(s % ndevices, raidz_req.offset),
                          (s \div ndevices) * asize + t)
                /\ raidz_req.data[k + 1] =
                    DeviceByte(SwapColumn(s % ndevices, raidz_req.offset),
                               (s \div ndevices) * asize + t)

(***************************************************************************)
(* fletcher.rs: the two checksums.                                         *)
(***************************************************************************)
\* u32::from_le_bytes / u64::from_le_bytes of the n bytes starting at data[i].
\* A value wider than the (scaled) u64 keeps its low bits.
RECURSIVE from_le_bytes(_, _, _)
from_le_bytes(data, i, n) ==
    IF n = 0
    THEN 0
    ELSE (data[i] + 256 * (from_le_bytes(data, i + 1, n - 1) % (U64Mod \div 256)))
             % U64Mod

\* u32::from_be_bytes of the n bytes starting at data[i].
RECURSIVE from_be_bytes(_, _, _)
from_be_bytes(data, i, n) ==
    IF n = 0 THEN 0 ELSE data[i + n - 1] + 256 * from_be_bytes(data, i, n - 1)

wrapping_add(a, b) == (a + b) % U64Mod

\* The loop of do_fletcher4 from the chunk that starts at data[i].
RECURSIVE Fletcher4From(_, _, _)
Fletcher4From(data, i, s) ==
    IF i + 3 > Len(data)
    THEN s
    ELSE LET n == from_le_bytes(data, i, 4)
             s1 == wrapping_add(s[1], n)
             s2 == wrapping_add(s[2], s1)
             s3 == wrapping_add(s[3], s2)
             s4 == wrapping_add(s[4], s3)
         IN  Fletcher4From(data, i + 4, <<s1, s2, s3, s4>>)

\* The same loop, summed 64 bytes at a time.
RECURSIVE Fletcher4Chunks(_, _, _)
Fletcher4Chunks(data, i, s) ==
    IF i > Len(data)
    THEN s
    ELSE Bind(Fletcher4From(SubSeq(data, i, Min(i + 63, Len(data))), 1, s),
              LAMBDA sum : Fletcher4Chunks(data, i + 64, sum))

do_fletcher4(data) == Fletcher4Chunks(data, 1, <<0, 0, 0, 0>>)

\* The loop of do_fletcher2 from the pair of chunks that starts at data[i].
RECURSIVE Fletcher2From(_, _, _)
Fletcher2From(data, i, s) ==
    IF i + 15 > Len(data)
    THEN s
    ELSE LET n0 == from_le_bytes(data, i, 8)
             n1 == from_le_bytes(data, i + 8, 8)
             s1 == wrapping_add(s[1], n0)
             s2 == wrapping_add(s[2], n1)
             s3 == wrapping_add(s[3], s1)
             s4 == wrapping_add(s[4], s2)
         IN  Fletcher2From(data, i + 16, <<s1, s2, s3, s4>>)

do_fletcher2(data) == Fletcher2From(data, 1, <<0, 0, 0, 0>>)

(***************************************************************************)
(* lzjb.rs and lz4.rs: the two decompressors.                              *)
(***************************************************************************)
MATCH_BITS == 6

MATCH_MIN == 3

OFFSET_MASK == 1023

\* 2^n for the shifts of the decompressors.
RECURSIVE Pow2(_)
Pow2(n) == IF n = 0 THEN 1 ELSE 2 * Pow2(n - 1)

\* The copy loop of a match: `count` bytes from `lookback_pos`, the output
\* growing while it is read; LZJB stops at the output length, LZ4 has none.
RECURSIVE CopyMatch(_, _, _, _)
CopyMatch(out, lookback_pos, count, limit) ==
    IF count = 0 \/ (limit >= 0 /\ Len(out) >= limit)
    THEN out
    ELSE CopyMatch(Append(out, out[lookback_pos + 1]), lookback_pos + 1,
                   count - 1, limit)

\* The loop of lzjb_decompress: `pos` bytes of data consumed so far.
RECURSIVE LzjbLoop(_, _, _, _, _, _)
LzjbLoop(data, pos, copymap, copymask, out, output_length) ==
    IF Len(out) >= output_length
    THEN [ok |-> TRUE, data |-> out]
    ELSE LET fresh == (copymask * 2 = 256)
             mask == IF fresh THEN 1 ELSE copymask * 2
             p1 == IF fresh THEN pos + 1 ELSE pos
         IN  IF fresh /\ pos + 1 > Len(data)
             THEN [ok |-> FALSE, data |-> <<>>]
             ELSE LET map == IF fresh THEN data[pos + 1] ELSE copymap
                  IN  IF (map \div mask) % 2 # 0
                      THEN IF p1 + 2 > Len(data)
                           THEN [ok |-> FALSE, data |-> <<>>]
                           ELSE LET byte0 == data[p1 + 1]
                                    byte1 == data[p1 + 2]
                                    lookback_size ==
                                        (byte0 \div Pow2(8 - MATCH_BITS)) + MATCH_MIN
                                    lookback ==
                                        (byte0 * 256 + byte1) % (OFFSET_MASK + 1)
                                IN  IF lookback > Len(out) \/ lookback = 0
                                    THEN [ok |-> FALSE, data |-> <<>>]
                                    ELSE LzjbLoop(data, p1 + 2, map, mask,
                                                  CopyMatch(out, Len(out) - lookback,
                                                            lookback_size, output_length),
                                                  output_length)
                      ELSE IF p1 + 1 > Len(data)
                           THEN [ok |-> FALSE, data |-> <<>>]
                           ELSE LzjbLoop(data, p1 + 1, map, mask,
                                         Append(out, data[p1 + 1]), output_length)

lzjb_decompress(data, output_length) ==
    LzjbLoop(data, 0, 0, 128, <<>>, output_length)

\* The extended-size loop of LZ4: adds bytes until one is not 0xFF.
\* Returns the size and the position, or pos = -1 when the stream ends.
RECURSIVE Lz4Extend(_, _, _)
Lz4Extend(data, pos, size) ==
    IF pos + 1 > Len(data)
    THEN [size |-> size, pos |-> -1]
    ELSE IF data[pos + 1] # 255
         THEN [size |-> size + data[pos + 1], pos |-> pos + 1]
         ELSE Lz4Extend(data, pos + 1, size + 255)

\* The loop of lz4_decompress_blocks: `pos` bytes of data consumed so far.
RECURSIVE Lz4Loop(_, _, _)
Lz4Loop(data, pos, out) ==
    IF pos + 1 > Len(data)
    THEN [ok |-> FALSE, data |-> out]
    ELSE LET token == data[pos + 1]
             lit0 == token \div 16
             lb0 == token % 16
             lit == IF lit0 = 15
                    THEN Lz4Extend(data, pos + 1, lit0)
                    ELSE [size |-> lit0, pos |-> pos + 1]
         IN  IF lit.pos < 0
             THEN [ok |-> FALSE, data |-> out]
             ELSE IF lit.pos + lit.size > Len(data)
             THEN [ok |-> FALSE, data |-> out \o SubSeq(data, lit.pos + 1, Len(data))]
             ELSE LET out1 == out \o SubSeq(data, lit.pos + 1, lit.pos + lit.size)
                      p2 == lit.pos + lit.size
                  IN  IF p2 + 2 > Len(data)
                      THEN [ok |-> (lb0 = 0), data |-> out1]
                      ELSE LET lookback == from_le_bytes(data, p2 + 1, 2)
                               lb == IF lb0 = 15
                                     THEN Lz4Extend(data, p2 + 2, lb0)
                                     ELSE [size |-> lb0, pos |-> p2 + 2]
                           IN  IF lookback > Len(out1) \/ lookback = 0
                               THEN [ok |-> FALSE, data |-> out1]
                               ELSE IF lb.pos < 0
                               THEN [ok |-> FALSE, data |-> out1]
                               ELSE Lz4Loop(data, lb.pos,
                                            CopyMatch(out1, Len(out1) - lookback,
                                                      lb.size + 4, -1))

lz4_decompress_blocks(data) == Lz4Loop(data, 0, <<>>)

(***************************************************************************)
(* zio.rs: data virtual addresses and block pointers.                      *)
(***************************************************************************)
\* The unit of DVA offsets and of block sizes (512 bytes, scaled).
DvaUnit == 16

\* DataVirtualAddress::from
DvaFrom(vdev_id, offset_in_bytes, is_gang) ==
    [vdev_id |-> vdev_id, offset_in_512b_sectors |-> offset_in_bytes \div DvaUnit,
     is_gang |-> is_gang]

\* DataVirtualAddress::parse_offset
parse_offset(dva) == dva.offset_in_512b_sectors * DvaUnit

\* NormalBlockPointer::parse_logical_size and parse_physical_size
parse_logical_size(bp) == (bp.logical_size_in_512b_sectors_minus_one + 1) * DvaUnit

parse_physical_size(bp) == (bp.physical_size_in_512b_sectors_minus_one + 1) * DvaUnit

\* try_checksum_block
try_checksum_block(block_data, checksum_method) ==
    IF checksum_method \in {"Fletcher4", "GangHeader", "On"}
    THEN [some |-> TRUE, sum |-> do_fletcher4(block_data)]
    ELSE IF checksum_method = "Fletcher2"
    THEN [some |-> TRUE, sum |-> do_fletcher2(block_data)]
    ELSE [some |-> FALSE, sum |-> <<0, 0, 0, 0>>]

\* try_decompress_block
try_decompress_block(block_data, compression_method, output_size) ==
    IF compression_method = "Off"
    THEN [ok |-> TRUE, data |-> block_data]
    ELSE IF compression_method \in {"Lz4", "On"}
    THEN IF Len(block_data) < 4
         THEN [ok |-> FALSE, data |-> <<>>]
         ELSE LET comp_size == from_be_bytes(block_data, 1, 4)
              IN  IF comp_size + 4 > Len(block_data)
                  THEN [ok |-> FALSE, data |-> <<>>]
                  ELSE lz4_decompress_blocks(SubSeq(block_data, 5, comp_size + 4))
    ELSE IF compression_method = "Lzjb"
    THEN lzjb_decompress(block_data, output_size)
    ELSE [ok |-> FALSE, data |-> <<>>]

\* slice::chunks(size): the i-th chunk (from 0), the last one may be short.
Chunk(data, size, i) == SubSeq(data, i * size + 1, Min((i + 1) * size, Len(data)))

\* chunks(asize).skip(column).step_by(ndevices), concatenated.
RECURSIVE ColumnSectors(_, _, _)
ColumnSectors(res, i, nchunks) ==
    IF i >= nchunks
    THEN <<>>
    ELSE Chunk(res, asize, i) \o ColumnSectors(res, i + ndevices, nchunks)

\* A column mapping that never exchanges columns.
column_mapping_unrotated(offset_in_bytes, column) == column

\* column_mapping of dereference_raw: 0 and 1 exchanged on odd MiB offsets
\* of a single-parity vdev.
column_mapping(offset_in_bytes, column) ==
    IF nparity = 1 /\ (offset_in_bytes \div MiB) % 2 # 0
    THEN (IF column = 0 THEN 1 ELSE IF column = 1 THEN 0 ELSE column)
    ELSE column

\* The transposition of dereference_raw over the data columns from `column`.
RECURSIVE Transpose(_, _, _)
Transpose(res, offset_in_bytes, column) ==
    IF column >= ndevices
    THEN <<>>
    ELSE ColumnSectors(res, column_mapping(offset_in_bytes, column),
                       CeilDiv(Len(res), asize))
             \o Transpose(res, offset_in_bytes, column + 1)

\* The size of a read that leaves out the parity sectors.
size_without_parity(size) == CeilDiv(size, asize) * asize

\* size_with_parity of dereference_raw: the data sectors of `size` bytes and
\* the parity sectors of their stripes.
size_with_parity(size) ==
    LET number_of_data_sectors == CeilDiv(size, asize)
        number_of_stripes ==
            CeilDiv(number_of_data_sectors, ndevices - nparity)
        number_of_parity_sectors == number_of_stripes * nparity
    IN  (number_of_data_sectors + number_of_parity_sectors) * asize

\* res_transposed of dereference_raw before it is cut to `size`: the sectors
\* of the data columns of what was read, column after column.
res_transposed(cache, dva, size) ==
    Bind(RaidzReadFrom(cache, parse_offset(dva), size_with_parity(size)),
         LAMBDA r :
             IF ~r.ok
             THEN r
             ELSE [ok |-> TRUE,
                   data |-> Transpose(r.data, parse_offset(dva), nparity),
                   cache |-> r.cache])

\* DataVirtualAddress::dereference_raw: the bytes and the sector cache after
\* the call.  vdev0 is what the vdev map holds under id 0.  The bytes have
\* the length `size` unless the assertion at the end of the call fails.
dereference_raw(cache, dva, size) ==
    IF vdev0 = "none"
    THEN [ok |-> FALSE, data |-> <<>>, cache |-> cache]
    ELSE IF vdev0 = "raidz"
    THEN Bind(res_transposed(cache, dva, size), LAMBDA t :
             IF ~t.ok
             THEN t
             ELSE [ok |-> TRUE, data |-> Truncate(t.data, size),
                   cache |-> t.cache])
    ELSE Bind(DeviceRead(devices, 0, parse_offset(dva), size), LAMBDA r :
             [ok |-> r.ok, data |-> r.data, cache |-> cache])

\* DataVirtualAddress::dereference.  The pointers of the model carry no gang
\* DVA, so this is dereference_raw.
DvaDereference(cache, dva, size) == dereference_raw(cache, dva, size)

(***************************************************************************)
(* yolo_block_recovery.rs: finding a block by its fletcher4 checksum.      *)
(***************************************************************************)
\* `as u32` (ChecksumTableEntry), scaled like U64Mod.
U32Mod == 32768

\* The loop of calculate_convolution_vector_for_block from `index`, with
\* `psize` sectors still to mark.  psize = 0 on entry to the decrement is the
\* usize underflow of `psize -= 1`.
RECURSIVE ConvolutionLoop(_, _, _, _, _, _, _)
ConvolutionLoop(off, psize, is_raidz1, raidz_ndevices, raidz_nparity, index, res) ==
    LET column == index % raidz_ndevices
        mapped_column ==
            IF is_raidz1 /\ (off \div MiB) % 2 # 0
            THEN (IF column = 0 THEN 1 ELSE IF column = 1 THEN 0 ELSE column)
            ELSE column
    IN  IF mapped_column < raidz_nparity
        THEN ConvolutionLoop(off, psize, is_raidz1, raidz_ndevices, raidz_nparity,
                             index + 1, Append(res, FALSE))
        ELSE IF psize = 0
        THEN [ok |-> FALSE, cv |-> Append(res, TRUE)]
        ELSE IF psize - 1 = 0
        THEN [ok |-> TRUE, cv |-> Append(res, TRUE)]
        ELSE ConvolutionLoop(off, psize - 1, is_raidz1, raidz_ndevices,
                             raidz_nparity, index + 1, Append(res, TRUE))

\* calculate_convolution_vector_for_block; ok = FALSE when `psize -= 1`
\* underflows (psize < sector_size).
calculate_convolution_vector_for_block(off, psize, is_raidz1, sector_size, raidz_ndevices, raidz_nparity) ==
    ConvolutionLoop(off, psize \div sector_size, is_raidz1, raidz_ndevices,
                    raidz_nparity, 0, <<>>)

\* Sum of the table entries selected by the mask placed at entry `ind`.
RECURSIVE MaskedSum(_, _, _, _)
MaskedSum(cv, sector_checksums, ind, j) ==
    IF j > Len(cv)
    THEN 0
    ELSE (IF cv[j] THEN sector_checksums[ind + j] ELSE 0)
             + MaskedSum(cv, sector_checksums, ind, j + 1)

\* calculate_fletcher4_partial_block_checksums: the convolution of the table
\* with the reversed mask, without its first cv.len() - 1 values.  The
\* floating point convolution is taken to be exact.
calculate_fletcher4_partial_block_checksums(cv, sector_checksums) ==
    [ind \in 1..(Len(sector_checksums) - (Len(cv) - 1)) |->
        MaskedSum(cv, sector_checksums, ind - 1, 1)]

\* build-checksum-table: the entry of one sector of the RAIDZ vdev.
ChecksumTableEntry(sector_index) ==
    Bind(read_sector(<<>>, sector_index), LAMBDA res :
        do_fletcher4(res.data)[1] % U32Mod)

\* checksum-map.bin after a complete run of build-checksum-table.
ChecksumTable ==
    [i \in 1..(RaidzSize \div asize) |-> ChecksumTableEntry(i - 1)]

\* The hunk the sweep reads at `off`: `count` entries, zero past the end of file.
Hunk(off, count) ==
    [i \in 1..count |->
        LET e == off \div asize + i
        IN  IF e <= Len(checksum_map) THEN checksum_map[e] ELSE 0]

\* block_size_upper_bound of find_block_with_fletcher4_checksum
block_size_upper_bound(psize) ==
    psize \div asize + (psize \div asize) \div (ndevices - 1) + 1

\* The partial matches the sweep finds in the hunk at `off`.
HunkMatches(off, checksum, psize) ==
    Bind(calculate_convolution_vector_for_block(off, psize, nparity = 1, asize,
                                                ndevices, nparity),
         LAMBDA c :
    Bind(Hunk(off, MiB \div asize + block_size_upper_bound(psize)),
         LAMBDA checksums :
    Bind(calculate_fletcher4_partial_block_checksums(c.cv, checksums),
         LAMBDA res :
             {off + (ind - 1) * asize :
                 ind \in {i \in DOMAIN res :
                             res[i] % U32Mod = checksum[1] % U32Mod}})))

\* The offsets of the hunks: (0..disk_size).step_by(1 MiB).
SweepOffsets ==
    LET disk_size == Len(checksum_map) * asize
    IN  {k * MiB : k \in 0..(CeilDiv(disk_size, MiB) - 1)}

\* TRUE when the convolution vector of some hunk underflows.
SweepOverflows(psize) ==
    SweepOffsets # {} /\ psize \div asize = 0

\* All partial matches of the sweep.
PartialMatches(checksum, psize) ==
    UNION {HunkMatches(off, checksum, psize) : off \in SweepOffsets}

\* A comparison of the first word of the checksum only.
YoloVerifyFirstWord(cache, checksum, psize, partial_match_off) ==
    Bind(DvaDereference(cache, DvaFrom(0, partial_match_off, FALSE), psize),
         LAMBDA r :
             [ok |-> r.ok /\ do_fletcher4(r.data)[1] = checksum[1],
              cache |-> r.cache])

\* The full comparison of find_any: dereference a non-gang DVA at the
\* partial match and compare all four words of its fletcher4.
YoloVerify(cache, checksum, psize, partial_match_off) ==
    Bind(DvaDereference(cache, DvaFrom(0, partial_match_off, FALSE), psize),
         LAMBDA r :
             [ok |-> r.ok /\ do_fletcher4(r.data) = checksum, cache |-> r.cache])

\* find_any over the partial matches.  The matches are tested in parallel
\* and any verified one may be returned; the sector cache is the one left by
\* testing them all in ascending order.
RECURSIVE VerifyAll(_, _, _, _)
VerifyAll(cache, checksum, psize, matches) ==
    IF matches = {}
    THEN [verified |-> {}, cache |-> cache]
    ELSE Bind(CHOOSE x \in matches : \A y \in matches : x <= y, LAMBDA m :
         Bind(YoloVerify(cache, checksum, psize, m), LAMBDA v :
         Bind(VerifyAll(v.cache, checksum, psize, matches \ {m}), LAMBDA rest :
             [verified |-> (IF v.ok THEN {m} ELSE {}) \cup rest.verified,
              cache |-> rest.cache])))

\* HashMap::insert on YOLO_CACHE
YoloInsert(map, key, value) ==
    [k \in (DOMAIN map) \cup {key} |-> IF k = key THEN value ELSE map[k]]

\* A save that leaves out the keys that were not found.
save_positive_answers(map) ==
    {<<k, map[k]>> : k \in {j \in DOMAIN map : map[j].some}}

\* save_yolo_cache: the map as a list of (key, value) pairs.
save_yolo_cache(map) == {<<k, map[k]>> : k \in DOMAIN map}

\* The initializer of YOLO_CACHE: the pairs of the file collected into a map.
LoadYoloCache(file) ==
    [k \in {e[1] : e \in file} |-> (CHOOSE e \in file : e[1] = k)[2]]

NoOffset == [some |-> FALSE, off |-> 0]

SomeOffset(off) == [some |-> TRUE, off |-> off]

\* find_block_with_fletcher4_checksum: the possible outcomes of one call,
\* each with the answer and the caches and the cache file it leaves.
find_block_with_fletcher4_checksum(cache, map, file, checksum, psize, ovf) ==
    LET key == <<checksum, psize>>
        same == [sector_cache |-> cache, yolo_cache |-> map,
                 yolo_cache_file |-> file, scanned |-> FALSE, partial |-> {}]
    IN  IF key \in DOMAIN map
        THEN {[res |-> "returned", answer |-> map[key]] @@ same}
        ELSE IF vdev0 # "raidz"
        THEN {[res |-> "returned", answer |-> NoOffset] @@ same}
        ELSE IF SweepOverflows(psize)
        THEN {[res |-> (IF ovf = "panic" THEN "panic" ELSE "diverge"),
               answer |-> NoOffset] @@ same}
        ELSE Bind(PartialMatches(checksum, psize), LAMBDA matches :
             Bind(VerifyAll(cache, checksum, psize, matches), LAMBDA v :
                 {[res |-> "returned", answer |-> a, sector_cache |-> v.cache,
                   yolo_cache |-> YoloInsert(map, key, a),
                   yolo_cache_file |-> save_yolo_cache(YoloInsert(map, key, a)),
                   scanned |-> TRUE, partial |-> matches] :
                     a \in IF v.verified = {}
                           THEN {NoOffset}
                           ELSE {SomeOffset(off) : off \in v.verified}}))

(***************************************************************************)
(* NormalBlockPointer::dereference                                         *)
(***************************************************************************)
NoDva == [vdev_id |-> 0, offset_in_512b_sectors |-> -1, is_gang |-> FALSE]

\* Vdev::get_from_block_cache and put_in_block_cache; a VdevFile has none.
BlockCacheHas(bcache, key) == vdev0 = "raidz" /\ LruHas(bcache, key)

BlockCachePut(bcache, key, value) ==
    IF vdev0 = "raidz" THEN LruPut(bcache, key, value, BlockCacheCap) ELSE bcache

\* The loop over the DVAs without the comparison of the computed checksum
\* with the one of the pointer.
RECURSIVE DvaLoopUnchecked(_, _, _, _)
DvaLoopUnchecked(bp, i, cache, bcache) ==
    IF i > Len(bp.dvas)
    THEN [res |-> "err", data |-> <<>>, path |-> "none", physical |-> <<>>,
          sector_cache |-> cache, block_cache |-> bcache]
    ELSE IF bp.dvas[i] = NoDva
    THEN DvaLoopUnchecked(bp, i + 1, cache, bcache)
    ELSE Bind(DvaDereference(cache, bp.dvas[i], parse_physical_size(bp)),
              LAMBDA r :
         Bind(try_decompress_block(r.data, bp.compression_method,
                                   parse_logical_size(bp)),
              LAMBDA d :
             IF ~r.ok \/ ~d.ok \/ Len(d.data) # parse_logical_size(bp)
             THEN DvaLoopUnchecked(bp, i + 1, r.cache, bcache)
             ELSE [res |-> "ok", data |-> d.data, path |-> "dva",
                   physical |-> r.data, sector_cache |-> r.cache,
                   block_cache |->
                       BlockCachePut(bcache, <<bp.checksum, bp.checksum_method>>,
                                     d.data)]))

\* The loop over the DVAs of the pointer, from the i-th.
\* The loop over the DVAs giving up at the first present DVA that fails.
RECURSIVE DvaLoopStopping(_, _, _, _)
DvaLoopStopping(bp, i, cache, bcache) ==
    IF i > Len(bp.dvas)
    THEN [res |-> "err", data |-> <<>>, path |-> "none", physical |-> <<>>,
          sector_cache |-> cache, block_cache |-> bcache]
    ELSE IF bp.dvas[i] = NoDva
    THEN DvaLoopStopping(bp, i + 1, cache, bcache)
    ELSE Bind(DvaDereference(cache, bp.dvas[i], parse_physical_size(bp)),
              LAMBDA r :
         Bind(try_checksum_block(r.data, bp.checksum_method),
              LAMBDA computed_checksum :
         Bind(try_decompress_block(r.data, bp.compression_method,
                                   parse_logical_size(bp)),
              LAMBDA d :
             IF \/ ~r.ok
                \/ ~computed_checksum.some
                \/ computed_checksum.sum # bp.checksum
                \/ ~d.ok
                \/ Len(d.data) # parse_logical_size(bp)
             THEN [res |-> "err", data |-> <<>>, path |-> "none",
                   physical |-> <<>>, sector_cache |-> r.cache,
                   block_cache |-> bcache]
             ELSE [res |-> "ok", data |-> d.data, path |-> "dva",
                   physical |-> r.data, sector_cache |-> r.cache,
                   block_cache |->
                       BlockCachePut(bcache, <<bp.checksum, bp.checksum_method>>,
                                     d.data)])))

RECURSIVE DvaLoop(_, _, _, _)
DvaLoop(bp, i, cache, bcache) ==
    IF i > Len(bp.dvas)
    THEN [res |-> "err", data |-> <<>>, path |-> "none", physical |-> <<>>,
          sector_cache |-> cache, block_cache |-> bcache]
    ELSE IF bp.dvas[i] = NoDva
    THEN DvaLoop(bp, i + 1, cache, bcache)
    ELSE Bind(DvaDereference(cache, bp.dvas[i], parse_physical_size(bp)),
              LAMBDA r :
         Bind(try_checksum_block(r.data, bp.checksum_method),
              LAMBDA computed_checksum :
         Bind(try_decompress_block(r.data, bp.compression_method,
                                   parse_logical_size(bp)),
              LAMBDA d :
             IF ~r.ok
             THEN DvaLoop(bp, i + 1, r.cache, bcache)
             ELSE IF ~computed_checksum.some
             THEN DvaLoop(bp, i + 1, r.cache, bcache)
             ELSE IF computed_checksum.sum # bp.checksum
             THEN DvaLoop(bp, i + 1, r.cache, bcache)
             ELSE IF ~d.ok
             THEN DvaLoop(bp, i + 1, r.cache, bcache)
             ELSE IF Len(d.data) # parse_logical_size(bp)
             THEN DvaLoop(bp, i + 1, r.cache, bcache)
             ELSE [res |-> "ok", data |-> d.data, path |-> "dva",
                   physical |-> r.data, sector_cache |-> r.cache,
                   block_cache |->
                       BlockCachePut(bcache, <<bp.checksum, bp.checksum_method>>,
                                     d.data)])))

\* The YOLO fallback of dereference after find_block returned `f`.
YoloFallback(bp, f, bcache) ==
    Bind(DvaDereference(f.sector_cache, DvaFrom(0, f.answer.off, FALSE),
                        parse_physical_size(bp)),
         LAMBDA r :
    Bind(try_decompress_block(r.data, bp.compression_method,
                              parse_logical_size(bp)),
         LAMBDA d :
    LET left == [yolo_cache |-> f.yolo_cache, yolo_cache_file |-> f.yolo_cache_file,
                 scanned |-> f.scanned]
        failed == [res |-> "err", data |-> <<>>, path |-> "none",
                   physical |-> <<>>, block_cache |-> bcache]
    IN  IF f.res # "returned"
        THEN [res |-> f.res, data |-> <<>>, path |-> "none", physical |-> <<>>,
              sector_cache |-> f.sector_cache, block_cache |-> bcache] @@ left
        ELSE IF ~f.answer.some
        THEN failed @@ [sector_cache |-> f.sector_cache] @@ left
        ELSE IF ~(r.ok /\ d.ok)
        THEN failed @@ [sector_cache |-> r.cache] @@ left
        ELSE IF Len(d.data) # parse_logical_size(bp)
        THEN failed @@ [sector_cache |-> r.cache] @@ left
        ELSE [res |-> "ok", data |-> d.data, path |-> "yolo", physical |-> r.data,
              sector_cache |-> r.cache,
              block_cache |->
                  BlockCachePut(bcache, <<bp.checksum, bp.checksum_method>>, d.data)]
                 @@ left))

\* NormalBlockPointer::dereference: the possible outcomes of one call.
dereference(bp, cache, bcache, map, file, ovf) ==
    Bind(DvaLoop(bp, 1, cache, bcache), LAMBDA l :
    LET key == <<bp.checksum, bp.checksum_method>>
        same == [yolo_cache |-> map, yolo_cache_file |-> file, scanned |-> FALSE]
    IN  IF vdev0 = "none"
        THEN {[res |-> "panic", data |-> <<>>, path |-> "none", physical |-> <<>>,
               sector_cache |-> cache, block_cache |-> bcache] @@ same}
        ELSE IF BlockCacheHas(bcache, key)
        THEN {[res |-> "ok", data |-> bcache[LruIndex(bcache, key)].val,
               path |-> "cache", physical |-> <<>>, sector_cache |-> cache,
               block_cache |-> LruGet(bcache, key)] @@ same}
        ELSE IF l.res = "ok"
        THEN {l @@ same}
        ELSE IF yolo_feature /\ bp.checksum_method = "Fletcher4"
        THEN {YoloFallback(bp, f, l.block_cache) :
                f \in find_block_with_fletcher4_checksum(
                          l.sector_cache, map, file, bp.checksum,
                          parse_physical_size(bp), ovf)}
        ELSE {l @@ same})

(***************************************************************************)
(* The pool of the zio behaviours and the calls made on it.                *)
(***************************************************************************)
\* The bytes of the RAIDZ vdev in the order of its linear address space, in
\* pieces of one DVA unit.  Every 32-bit word is below U32Mod or at least
\* below U64Mod, so the checksums of the model are the real ones.
PlainBlock == <<1, 0, 0, 0, 0, 0, 0, 0, 2, 0, 0, 0, 0, 0, 0, 0>>

\* The words of PlainBlock in the other order: same first checksum word.
SwappedBlock == <<2, 0, 0, 0, 0, 0, 0, 0, 1, 0, 0, 0, 0, 0, 0, 0>>

\* Same first checksum word again, in a single word.
MergedBlock == <<3, 0, 0, 0, 0, 0, 0, 0, 0, 0, 0, 0, 0, 0, 0, 0>>

\* LZJB: a literal 7, then a match of 16 bytes at distance 1.
LzjbBlock == <<2, 7, 52, 1, 0, 0, 0, 0, 0, 0, 0, 0, 0, 0, 0, 0>>

\* LZ4: 5 bytes follow; a literal 7, a match of 15 bytes at distance 1, end.
Lz4Block == <<0, 0, 0, 5, 27, 7, 1, 0, 0, 0, 0, 0, 0, 0, 0, 0>>

ParityBlock == <<5, 0, 0, 0, 0, 0, 0, 0, 6, 0, 0, 0, 0, 0, 0, 0>>

OtherBlock == <<4, 0, 0, 0, 0, 0, 0, 0, 0, 0, 0, 0, 0, 0, 0, 0>>

LinearBytes ==
    ParityBlock \o PlainBlock \o LzjbBlock \o SwappedBlock
        \o PlainBlock \o Lz4Block \o MergedBlock \o OtherBlock

\* The leaves of an n-device RAIDZ vdev with sector size a holding `bytes`.
PoolFromLinear(bytes, n, a) ==
    [d \in 0..(n - 1) |->
        LeafOf([i \in 1..(Len(bytes) \div n) |->
                   bytes[((((i - 1) \div a) * n + d) * a + ((i - 1) % a)) + 1]])]

\* A block pointer with the given fields.
BlockPointer(dvas, checksum, checksum_method, compression_method, lsize, psize) ==
    [dvas |-> dvas, checksum |-> checksum, checksum_method |-> checksum_method,
     compression_method |-> compression_method,
     logical_size_in_512b_sectors_minus_one |-> lsize \div DvaUnit - 1,
     physical_size_in_512b_sectors_minus_one |-> psize \div DvaUnit - 1]

\* The bytes a non-gang DVA at `off` yields for `size` bytes on this pool.
BlockAt(off, size) ==
    Bind(DvaDereference(<<>>, DvaFrom(0, off, FALSE), size), LAMBDA r : r.data)

\* The checksum a writer would have stored for the block at `off`.
ChecksumAt(off, size, checksum_method) ==
    Bind(BlockAt(off, size), LAMBDA data :
        IF checksum_method = "Fletcher2"
        THEN do_fletcher2(data)
        ELSE do_fletcher4(data))

GarbageChecksum == <<9, 9, 9, 9>>

\* The DVA lists of the model for a block at `off`: its own address, no
\* address at all, and a stale address before the right one.
DvaLists(off) ==
    {<<DvaFrom(0, off, FALSE)>>,
     <<NoDva, NoDva, NoDva>>,
     <<DvaFrom(0, (off + 2 * DvaUnit) % (4 * DvaUnit), FALSE), NoDva,
       DvaFrom(1, off, FALSE)>>}

BlockOffsets == {0, DvaUnit, 2 * DvaUnit, 4 * DvaUnit, 5 * DvaUnit}

\* The block pointers dereferenced in the model.
BlockPointers ==
    UNION {{BlockPointer(dvas, ChecksumAt(off, psize, "Fletcher4"), "Fletcher4",
                         "Off", psize, psize) :
               psize \in {DvaUnit, 2 * DvaUnit}, dvas \in DvaLists(off)} :
           off \in BlockOffsets}
    \cup
    {BlockPointer(IF own THEN <<DvaFrom(0, off, FALSE)>> ELSE <<NoDva, NoDva, NoDva>>,
                  ChecksumAt(off, DvaUnit, "Fletcher4"), "Fletcher4",
                  c, lsize, DvaUnit) :
        off \in {DvaUnit, 5 * DvaUnit}, c \in {"Lzjb", "Lz4"},
        lsize \in {DvaUnit, 2 * DvaUnit}, own \in BOOLEAN}
    \cup
    {BlockPointer(<<DvaFrom(0, off, FALSE)>>, ChecksumAt(off, DvaUnit, "Fletcher2"),
                  "Fletcher2", c, DvaUnit, DvaUnit) :
        off \in {0, DvaUnit, 2 * DvaUnit}, c \in {"Off", "Lzjb"}}
    \cup
    {BlockPointer(<<DvaFrom(0, 0, FALSE)>>, ChecksumAt(0, DvaUnit, "Fletcher4"),
                  m, c, lsize, DvaUnit) :
        m \in {"Fletcher4", "Sha256"}, c \in {"Off", "Gzip9"},
        lsize \in {DvaUnit, 2 * DvaUnit}}
    \cup
    {BlockPointer(dvas, GarbageChecksum, "Fletcher4", "Off", DvaUnit, DvaUnit) :
        dvas \in DvaLists(0)}

ZioNone ==
    [op |-> "none", bp |-> <<>>, checksum |-> <<>>, psize |-> 0, res |-> "none",
     data |-> <<>>, path |-> "none", physical |-> <<>>, answer |-> NoOffset,
     scanned |-> FALSE, partial |-> {}, run |-> 1]

MaxZioOps == 2

\* The number of processes a behaviour runs one after the other.
MaxRuns == 2

\* bp.dereference(vdevs)
Dereference(bp, ovf) ==
    /\ machine = "zio"
    /\ zio_ops < MaxZioOps
    /\ \E out \in dereference(bp, sector_cache, block_cache, yolo_cache,
                              yolo_cache_file, ovf) :
          /\ sector_cache' = out.sector_cache
          /\ block_cache' = out.block_cache
          /\ yolo_cache' = out.yolo_cache
          /\ yolo_cache_file' = out.yolo_cache_file
          /\ zio_req' = [ZioNone EXCEPT !.op = "dereference", !.bp = bp,
                            !.run = zio_req.run,
                            !.checksum = bp.checksum,
                            !.psize = parse_physical_size(bp),
                            !.res = out.res, !.data = out.data,
                            !.path = out.path, !.physical = out.physical,
                            !.scanned = out.scanned]
    /\ zio_ops' = zio_ops + 1
    /\ UNCHANGED <<machine, devices, ndevices, nparity, asize, vdev0,
                   yolo_feature, checksum_map, zioOthers>>

\* find_block_with_fletcher4_checksum(vdevs, checksum, psize)
FindBlock(checksum, psize, ovf) ==
    /\ machine = "zio"
    /\ zio_ops < MaxZioOps
    /\ \E out \in find_block_with_fletcher4_checksum(
                      sector_cache, yolo_cache, yolo_cache_file, checksum, psize,
                      ovf) :
          /\ sector_cache' = out.sector_cache
          /\ yolo_cache' = out.yolo_cache
          /\ yolo_cache_file' = out.yolo_cache_file
          /\ zio_req' = [ZioNone EXCEPT !.op = "find_block",
                            !.run = zio_req.run,
                            !.checksum = checksum, !.psize = psize,
                            !.res = out.res, !.answer = out.answer,
                            !.scanned = out.scanned, !.partial = out.partial]
    /\ zio_ops' = zio_ops + 1
    /\ UNCHANGED <<machine, devices, ndevices, nparity, asize, block_cache, vdev0,
                   yolo_feature, checksum_map, zioOthers>>

\* The process ends and another one starts on the same pool: the caches of
\* the vdev are new, YOLO_CACHE is read from yolo-cache.json.
Restart ==
    /\ machine = "zio"
    /\ zio_req.run < MaxRuns
    /\ zio_req.op \notin {"none", "restart"}
    /\ sector_cache' = <<>>
    /\ block_cache' = <<>>
    /\ yolo_cache' = LoadYoloCache(yolo_cache_file)
    /\ zio_req' = [ZioNone EXCEPT !.op = "restart", !.run = zio_req.run + 1]
    /\ UNCHANGED <<machine, devices, ndevices, nparity, asize, vdev0,
                   yolo_feature, yolo_cache_file, checksum_map, zio_ops,
                   zioOthers>>

\* The queries made to find_block directly.
QueryChecksums ==
    {ChecksumAt(off, psize, "Fletcher4") :
        off \in BlockOffsets, psize \in {DvaUnit, 2 * DvaUnit}}
    \cup {GarbageChecksum}

\* The pool as the binaries build it (a RAIDZ vdev under id 0, with the
\* checksum map of build-checksum-table), or a plain file under id 0.
InitZio ==
    /\ machine = "zio"
    /\ vdev0 \in {"raidz", "file"}
    /\ yolo_feature \in BOOLEAN
    /\ \/ /\ vdev0 = "raidz"
          /\ ndevices = 4
          /\ nparity = 1
          /\ asize \in {DvaUnit, 2 * DvaUnit}
          /\ devices = PoolFromLinear(LinearBytes, ndevices, asize)
          /\ checksum_map = ChecksumTable
       \/ /\ vdev0 = "file"
          /\ ndevices = 0 /\ nparity = 0 /\ asize = 0
          /\ devices = [d \in {0} |-> LeafOf(LinearBytes)]
          /\ checksum_map = <<>>
    /\ sector_cache = <<>>
    /\ block_cache = <<>>
    /\ yolo_cache = LoadYoloCache({})
    /\ yolo_cache_file = {}
    /\ zio_req = ZioNone
    /\ zio_ops = 0
    /\ IdleUnless({"pool", "zio"})

NextZio ==
    \/ \E bp \in BlockPointers, ovf \in OverflowOutcomes : Dereference(bp, ovf)
    \/ \E c \in QueryChecksums, psize \in {DvaUnit, 2 * DvaUnit},
          ovf \in OverflowOutcomes : FindBlock(c, psize, ovf)
    \/ Restart

SpecZio == InitZio /\ [][NextZio]_vars

DereferenceOk ==
    /\ zio_req.op = "dereference"
    /\ zio_req.res = "ok"
    /\ zio_req.bp.checksum_method \in {"Fletcher2", "Fletcher4"}

(***************************************************************************)
(* C1 (as the code behaves): when the dereference of a normal block        *)
(* pointer with a fletcher2 or fletcher4 checksum succeeds through one of  *)
(* its DVAs or through the YOLO fallback, the checksum of the psize        *)
(* physical bytes that were read equals the checksum of the pointer, and   *)
(* the bytes returned are the lsize bytes those decompress to; so the      *)
(* checksum of the returned bytes equals the pointer's when compression is *)
(* off.  When it succeeds through the block cache, the bytes returned are  *)
(* the entry of the cache under (checksum, checksum kind).                 *)
(***************************************************************************)
DereferenceChecksumsPhysicalBytes ==
    DereferenceOk =>
        LET bp == zio_req.bp
            key == <<bp.checksum, bp.checksum_method>>
        IN  /\ zio_req.path \in {"dva", "yolo", "cache"}
            /\ zio_req.path \in {"dva", "yolo"} =>
                  /\ Len(zio_req.physical) = parse_physical_size(bp)
                  /\ try_checksum_block(zio_req.physical, bp.checksum_method).sum
                         = bp.checksum
                  /\ zio_req.data =
                         try_decompress_block(zio_req.physical,
                                              bp.compression_method,
                                              parse_logical_size(bp)).data
                  /\ Len(zio_req.data) = parse_logical_size(bp)
                  /\ bp.compression_method = "Off" =>
                         try_checksum_block(zio_req.data, bp.checksum_method).sum
                             = bp.checksum
            /\ zio_req.path = "cache" =>
                  /\ block_cache # <<>>
                  /\ block_cache[1] = [key |-> key, val |-> zio_req.data]

\* A compressed block was dereferenced through a DVA with its checksum.
DereferencedCompressedBlock ==
    /\ DereferenceOk
    /\ zio_req.path = "dva"
    /\ zio_req.bp.compression_method = "Lzjb"
    /\ zio_req.data # zio_req.physical

(***************************************************************************)
(* C1 (as stated): whenever the dereference of a normal block pointer with *)
(* a fletcher2 or fletcher4 checksum succeeds, the checksum of the         *)
(* returned logical bytes, computed with the pointer's checksum kind,      *)
(* equals the checksum of the pointer.                                     *)
(***************************************************************************)
DereferenceChecksumsLogicalBytes ==
    DereferenceOk =>
        try_checksum_block(zio_req.data, zio_req.bp.checksum_method).sum
            = zio_req.bp.checksum

\* The true locations of a block: the offsets at which a non-gang DVA yields
\* psize bytes whose fletcher4 is `checksum`.
TrueLocations(checksum, psize) ==
    {l \in {k * DvaUnit : k \in 0..(Len(LinearBytes) \div DvaUnit)} :
        YoloVerify(<<>>, checksum, psize, l).ok}

\* The last call was a find_block that went to the checksum map.
FindBlockSwept ==
    /\ zio_req.op = "find_block"
    /\ vdev0 = "raidz"
    /\ zio_req.scanned \/ zio_req.res # "returned"

(***************************************************************************)
(* C6 (as stated): the partial matches of the sweep are a superset of the  *)
(* full matches.  For every true location l of a block of physical size    *)
(* psize with fletcher4 checksum C, the sweep of find_block for (C, psize) *)
(* completes and reports l as a partial match.                             *)
(***************************************************************************)
SweepReportsEveryTrueLocation ==
    FindBlockSwept =>
        \A l \in TrueLocations(zio_req.checksum, zio_req.psize) :
            /\ zio_req.res = "returned"
            /\ l \in zio_req.partial

\* TRUE when a non-gang DVA at `off` yields psize bytes with this fletcher4.
FullMatch(checksum, psize, off) ==
    Bind(DvaDereference(<<>>, DvaFrom(0, off, FALSE), psize), LAMBDA r :
        r.ok /\ Len(r.data) = psize /\ do_fletcher4(r.data) = checksum)

(***************************************************************************)
(* C7: find_block_with_fletcher4_checksum is sound.  Whenever it returns   *)
(* Some(off), from the sweep or from the cache, the psize bytes a non-gang *)
(* DVA at off yields have a fletcher4 equal to the checksum in all four    *)
(* words; the same holds of every Some(off) kept in YOLO_CACHE and in      *)
(* yolo-cache.json.                                                        *)
(***************************************************************************)
FindBlockAnswersAreFullMatches ==
    /\ (/\ zio_req.op = "find_block"
        /\ zio_req.res = "returned"
        /\ zio_req.answer.some)
           => FullMatch(zio_req.checksum, zio_req.psize, zio_req.answer.off)
    /\ \A key \in DOMAIN yolo_cache :
          yolo_cache[key].some
              => FullMatch(key[1], key[2], yolo_cache[key].off)
    /\ \A e \in yolo_cache_file :
          e[2].some => FullMatch(e[1][1], e[1][2], e[2].off)

\* The second process was given an offset by the cache file of the first,
\* for a checksum whose first word other blocks share.
FindBlockServedFromCacheFile ==
    /\ zio_req.op = "find_block"
    /\ zio_req.res = "returned"
    /\ zio_req.run = 2
    /\ ~zio_req.scanned
    /\ zio_req.answer.some
    /\ \E l \in {k * DvaUnit : k \in 0..(Len(LinearBytes) \div DvaUnit)} :
          /\ YoloVerifyFirstWord(<<>>, zio_req.checksum, zio_req.psize, l).ok
          /\ ~FullMatch(zio_req.checksum, zio_req.psize, l)

\* What one step does to the answers of the YOLO queries; `reached` says
\* which queries the statement is about.
YoloStepKeepsAnswers(reached) ==
    /\ \A k \in DOMAIN yolo_cache :
          k \in DOMAIN yolo_cache' /\ yolo_cache'[k] = yolo_cache[k]
    /\ yolo_cache_file \subseteq yolo_cache_file'
    /\ (/\ zio_req'.op = "find_block"
        /\ zio_ops' # zio_ops
        /\ zio_req'.res = "returned"
        /\ reached)
           => LET key == <<zio_req'.checksum, zio_req'.psize>>
              IN  /\ key \in DOMAIN yolo_cache'
                  /\ yolo_cache'[key] = zio_req'.answer
                  /\ <<key, zio_req'.answer>> \in yolo_cache_file'
                  /\ key \in DOMAIN yolo_cache =>
                        /\ zio_req'.answer = yolo_cache[key]
                        /\ ~zio_req'.scanned
                        /\ yolo_cache_file' = yolo_cache_file

(***************************************************************************)
(* C8 (as the code behaves): once a YOLO query for (checksum, psize) on a  *)
(* pool whose vdev 0 is a RAIDZ vdev has completed with answer r, Some or  *)
(* None, the answer is in YOLO_CACHE and in yolo-cache.json, it stays in   *)
(* both in every later step, also into the next process, and every later   *)
(* query with the same key returns r without scanning the checksum map.    *)
(***************************************************************************)
YoloAnswersAreKept == [][YoloStepKeepsAnswers(vdev0 = "raidz")]_vars

\* The second process answered None from the cache file of the first.
NegativeAnswerServedFromCacheFile ==
    /\ zio_req.op = "find_block"
    /\ zio_req.res = "returned"
    /\ zio_req.run = 2
    /\ ~zio_req.scanned
    /\ ~zio_req.answer.some
    /\ <<zio_req.checksum, zio_req.psize>> \in DOMAIN yolo_cache
    /\ <<<<zio_req.checksum, zio_req.psize>>, NoOffset>> \in yolo_cache_file

(***************************************************************************)
(* C8 (as stated): once a YOLO query for (checksum, psize) has completed   *)
(* with answer r, Some or None, the answer has been written to the cache   *)
(* file and every later query with the same key returns r without scanning *)
(* the checksum map again.                                                 *)
(***************************************************************************)
YoloAnswersAreAlwaysKept == [][YoloStepKeepsAnswers(TRUE)]_vars

(***************************************************************************)
(* bin/fs-walker.rs: the choice of the active uberblock.                   *)
(***************************************************************************)
\* 0x00bab10c
UBERBLOCK_MAGIC == 12235020

\* The eight bytes of a little-endian u64 below 2^24.
to_le_bytes(n) ==
    <<n % 256, (n \div 256) % 256, (n \div 65536) % 256, 0, 0, 0, 0, 0>>

\* The same bytes in the other order.
to_be_bytes(n) ==
    <<0, 0, 0, 0, 0, (n \div 65536) % 256, (n \div 256) % 256, n % 256>>

\* Uberblock::from_bytes, lines 593-604: the two readings of the magic and
\* the branch taken.  Both readings are made with u64::from_bytes_le.
UberblockMagicCase(slot) ==
    LET ub_magic_le == from_le_bytes(slot.magic, 1, 8)
        ub_magic_be == from_le_bytes(slot.magic, 1, 8)
    IN  IF ub_magic_le = UBERBLOCK_MAGIC
        THEN "le"
        ELSE IF ub_magic_be = UBERBLOCK_MAGIC
        THEN "todo"
        ELSE "none"

\* Uberblock::from_bytes: the magic and the txg are decoded from the bytes
\* of the slot; a slot whose root pointer cannot be parsed (rootbp = <<>>)
\* gives no uberblock.
UberblockFromBytes(slot) ==
    LET ub_magic_le == from_le_bytes(slot.magic, 1, 8)
    IN  IF UberblockMagicCase(slot) # "le" \/ slot.rootbp = <<>>
        THEN [some |-> FALSE, txg |-> 0, rootbp |-> <<>>, slot |-> 0]
        ELSE [some |-> TRUE, txg |-> from_le_bytes(slot.txg, 1, 8),
              rootbp |-> slot.rootbp, slot |-> 0]

\* The loop that fills `uberblocks` from slot i on.
RECURSIVE ParseSlots(_, _)
ParseSlots(label, i) ==
    IF i > Len(label)
    THEN <<>>
    ELSE LET ub == UberblockFromBytes(label[i])
         IN  (IF ub.some THEN <<[ub EXCEPT !.slot = i]>> ELSE <<>>)
                 \o ParseSlots(label, i + 1)

\* The comparison of a descending sort.
TxgOrderedReversed(a, b) == a.txg >= b.txg

\* The comparison of sort_unstable_by: a.txg.cmp(&b.txg) is not Greater.
TxgOrdered(a, b) == a.txg <= b.txg

\* The results sort_unstable_by may give: the permutations of `seq` in
\* which every element is ordered before the next.
SortedPermutations(seq) ==
    LET n == Len(seq)
        perms == {p \in [1..n -> 1..n] : \A i, j \in 1..n : i # j => p[i] # p[j]}
    IN  {[i \in 1..n |-> seq[p[i]]] :
            p \in {q \in perms :
                     \A i \in 1..(n - 1) : TxgOrdered(seq[q[i]], seq[q[i + 1]])}}

\* main, lines 70-76: every slot of the label is parsed.
WalkerParse ==
    /\ machine = "walker"
    /\ walker_pc = "parse"
    /\ uberblocks' = ParseSlots(label0, 1)
    /\ walker_pc' = IF \E i \in 1..Len(label0) : UberblockMagicCase(label0[i]) = "todo"
                    THEN "panic"
                    ELSE "sort"
    /\ UNCHANGED <<machine, poolVars, zioVars, label0, walker_idx,
                   active_uberblock, walkerOthers>>

\* main, line 79: uberblocks.sort_unstable_by(|a, b| a.txg.cmp(&b.txg))
WalkerSort ==
    /\ machine = "walker"
    /\ walker_pc = "sort"
    /\ uberblocks' \in SortedPermutations(uberblocks)
    /\ walker_idx' = Len(uberblocks)
    /\ walker_pc' = "search"
    /\ UNCHANGED <<machine, poolVars, zioVars, label0, active_uberblock,
                   walkerOthers>>

\* main, lines 84-90: one turn of the loop over uberblocks.iter_mut().rev().
WalkerTry(ovf) ==
    /\ machine = "walker"
    /\ walker_pc = "search"
    /\ walker_idx > 0
    /\ \E out \in dereference(uberblocks[walker_idx].rootbp, sector_cache,
                              block_cache, yolo_cache, yolo_cache_file, ovf) :
          /\ sector_cache' = out.sector_cache
          /\ block_cache' = out.block_cache
          /\ yolo_cache' = out.yolo_cache
          /\ yolo_cache_file' = out.yolo_cache_file
          /\ zio_req' = [ZioNone EXCEPT !.op = "dereference",
                            !.bp = uberblocks[walker_idx].rootbp,
                            !.res = out.res, !.data = out.data,
                            !.path = out.path, !.physical = out.physical]
          /\ IF out.res = "ok"
             THEN /\ active_uberblock' = <<uberblocks[walker_idx]>>
                  /\ walker_pc' = "found"
                  /\ UNCHANGED walker_idx
             ELSE IF out.res = "err"
             THEN /\ walker_idx' = walker_idx - 1
                  /\ UNCHANGED <<active_uberblock, walker_pc>>
             ELSE /\ walker_pc' = "panic"
                  /\ UNCHANGED <<active_uberblock, walker_idx>>
    /\ UNCHANGED <<machine, devices, ndevices, nparity, asize, vdev0,
                   yolo_feature, checksum_map, zio_ops, label0, uberblocks,
                   walkerOthers>>

\* main, line 92: uberblock_search_info.unwrap() when the loop found nothing.
WalkerUnwrapNone ==
    /\ machine = "walker"
    /\ walker_pc = "search"
    /\ walker_idx = 0
    /\ walker_pc' = "panic"
    /\ UNCHANGED <<machine, poolVars, zioVars, label0, uberblocks, walker_idx,
                   active_uberblock, walkerOthers>>

\* The slots of the model: an empty slot, a slot with the magic in the other
\* byte order, and valid slots with a txg and a root pointer that is good,
\* stale, without address, or not parseable.
RootPointers ==
    {BlockPointer(<<DvaFrom(0, off, FALSE)>>, ChecksumAt(off, DvaUnit, "Fletcher4"),
                  "Fletcher4", "Off", DvaUnit, DvaUnit) : off \in {0, 2 * DvaUnit}}
    \cup
    {BlockPointer(dvas, GarbageChecksum, "Fletcher4", "Off", DvaUnit, DvaUnit) :
        dvas \in {<<DvaFrom(0, 0, FALSE)>>, <<NoDva, NoDva, NoDva>>}}
    \cup {<<>>}

MaxTxg == 3

LabelSlots == 3

UberblockSlots ==
    {[magic |-> to_le_bytes(0), txg |-> to_le_bytes(0), rootbp |-> <<>>],
     [magic |-> to_be_bytes(UBERBLOCK_MAGIC), txg |-> to_be_bytes(MaxTxg),
      rootbp |-> BlockPointer(<<DvaFrom(0, 0, FALSE)>>,
                              ChecksumAt(0, DvaUnit, "Fletcher4"), "Fletcher4",
                              "Off", DvaUnit, DvaUnit)]}
    \cup
    {[magic |-> to_le_bytes(UBERBLOCK_MAGIC), txg |-> to_le_bytes(t), rootbp |-> bp] :
        t \in 1..MaxTxg, bp \in RootPointers}

InitWalker ==
    /\ machine = "walker"
    /\ vdev0 = "raidz"
    /\ yolo_feature \in BOOLEAN
    /\ ndevices = 4
    /\ nparity = 1
    /\ asize = DvaUnit
    /\ devices = PoolFromLinear(LinearBytes, ndevices, asize)
    /\ checksum_map = ChecksumTable
    /\ sector_cache = <<>>
    /\ block_cache = <<>>
    /\ yolo_cache = LoadYoloCache({})
    /\ yolo_cache_file = {}
    /\ zio_req = ZioNone
    /\ zio_ops = 0
    /\ label0 \in [1..LabelSlots -> UberblockSlots]
    /\ uberblocks = <<>>
    /\ walker_pc = "parse"
    /\ walker_idx = 0
    /\ active_uberblock = <<>>
    /\ IdleUnless({"pool", "zio", "walker"})

NextWalker ==
    \/ WalkerParse
    \/ WalkerSort
    \/ \E ovf \in OverflowOutcomes : WalkerTry(ovf)
    \/ WalkerUnwrapNone

SpecWalker == InitWalker /\ [][NextWalker]_vars

\* The slot carries the magic in the byte order the walker reads.
ValidMagic(slot) == from_le_bytes(slot.magic, 1, 8) = UBERBLOCK_MAGIC

\* The root pointer of the slot dereferences on this pool, whatever the
\* caches of the walker hold.
RootPointerDereferences(slot) ==
    /\ slot.rootbp # <<>>
    /\ \E out \in dereference(slot.rootbp, <<>>, <<>>, LoadYoloCache({}), {}, "panic") :
          out.res = "ok"

(***************************************************************************)
(* C2: the uberblock the walker selects comes from a slot of the label     *)
(* with the valid magic, its root pointer dereferences, and its TXG is at  *)
(* least the TXG of every other valid-magic slot whose root pointer        *)
(* dereferences: a slot with a higher TXG is passed over only when its     *)
(* root pointer does not dereference.                                      *)
(***************************************************************************)
WalkerSelectsNewestDereferenceable ==
    walker_pc = "found" =>
        LET active == active_uberblock[1]
            chosen == label0[active.slot]
        IN  /\ ValidMagic(chosen)
            /\ active.txg = from_le_bytes(chosen.txg, 1, 8)
            /\ active.rootbp = chosen.rootbp
            /\ RootPointerDereferences(chosen)
            /\ zio_req.res = "ok" /\ zio_req.bp = chosen.rootbp
            /\ \A i \in 1..Len(label0) :
                  (/\ i # active.slot
                   /\ ValidMagic(label0[i])
                   /\ from_le_bytes(label0[i].txg, 1, 8) > active.txg)
                      => ~RootPointerDereferences(label0[i])

\* The walker selected an uberblock although a valid slot had a higher TXG.
WalkerPassedOverNewerSlot ==
    /\ walker_pc = "found"
    /\ \E i \in 1..Len(label0) :
          /\ ValidMagic(label0[i])
          /\ label0[i].rootbp # <<>>
          /\ from_le_bytes(label0[i].txg, 1, 8) > active_uberblock[1].txg

(***************************************************************************)
(* zio.rs: EmbeddedBlockPointer, parsed from the 128 bytes of a block      *)
(* pointer and dereferenced without the pool.                              *)
(***************************************************************************)
\* CompressionMethod::from_value: the names of the values 0..16.
CompressionMethods ==
    <<"Inherit", "On", "Off", "Lzjb", "Empty", "Gzip1", "Gzip2", "Gzip3",
      "Gzip4", "Gzip5", "Gzip6", "Gzip7", "Gzip8", "Gzip9", "Zle", "Lz4",
      "Zstd">>

\* ObjType::from_value accepts the values 0..53.
ObjTypeCount == 54

\* The eight little-endian bytes of the info word with the given fields:
\* bits 0-23, 24-31, 32-38, 39, 40-47, 48-55, 56-60, 61 and 63.
InfoBytes(lsize, psize, compression, embedded, etype, typ, level, encrypted, endian) ==
    <<lsize % 256, (lsize \div 256) % 256, (lsize \div 65536) % 256, psize,
      compression + 128 * embedded, etype, typ,
      level + 32 * encrypted + 128 * endian>>

\* EmbeddedBlockPointer::from_bytes_le on the 128 bytes `data`: the info word
\* is the seventh word, the birth txg the eleventh, the rest is the payload.
EmbeddedFromBytesLe(data) ==
    LET info == SubSeq(data, 49, 56)
        payload == SubSeq(data, 1, 48) \o SubSeq(data, 57, 80)
                       \o SubSeq(data, 89, 128)
        embedded_bit == info[5] \div 128
        encrypted_bit == (info[8] \div 32) % 2
        endian_bit == info[8] \div 128
        typ == info[7]
        embedded_data_type == info[6]
        compression == info[5] % 128
    IN  IF Len(data) < 128
        THEN [some |-> FALSE]
        ELSE IF embedded_bit # 1 \/ encrypted_bit # 0 \/ endian_bit # 1
        THEN [some |-> FALSE]
        ELSE IF typ >= ObjTypeCount \/ embedded_data_type >= ObjTypeCount
        THEN [some |-> FALSE]
        ELSE IF compression >= Len(CompressionMethods)
        THEN [some |-> FALSE]
        ELSE [some |-> TRUE,
              payload |-> payload,
              level |-> info[8] % 32,
              typ |-> typ,
              embedded_data_type |-> embedded_data_type,
              compression_method |-> CompressionMethods[compression + 1],
              physical_size_in_bytes |-> info[4],
              logical_size_in_bytes |->
                  info[1] + 256 * info[2] + 65536 * info[3]]

\* EmbeddedBlockPointer::parse_logical_size and parse_physical_size
embedded_parse_logical_size(bp) == bp.logical_size_in_bytes + 1

embedded_parse_physical_size(bp) == bp.physical_size_in_bytes + 1

\* The dereference without the comparison of the length with the logical
\* size.
embedded_dereference_any_length(bp) ==
    LET data == Truncate(bp.payload, embedded_parse_physical_size(bp))
        d == try_decompress_block(data, bp.compression_method,
                                  embedded_parse_logical_size(bp))
    IN  IF ~d.ok
        THEN [res |-> "err", data |-> <<>>]
        ELSE [res |-> "ok", data |-> d.data]

\* EmbeddedBlockPointer::dereference
embedded_dereference(bp) ==
    LET data == Truncate(bp.payload, embedded_parse_physical_size(bp))
        d == try_decompress_block(data, bp.compression_method,
                                  embedded_parse_logical_size(bp))
    IN  IF ~d.ok
        THEN [res |-> "err", data |-> <<>>]
        ELSE IF Len(d.data) # embedded_parse_logical_size(bp)
        THEN [res |-> "err", data |-> <<>>]
        ELSE [res |-> "ok", data |-> d.data]

(***************************************************************************)
(* dmu.rs: DNodeBase::read_block and DNodeBase::read, and the block reader *)
(* of bin/recover.rs, over the pool of the zio behaviours.  The dnodes of  *)
(* the recovery behaviours have at most one level of indirection; the      *)
(* dnodes of the indirect trees have up to three.                          *)
(***************************************************************************)
parse_data_block_size(d) == d.data_blocksize_in_sectors * DvaUnit

\* What a call leaves behind when it stops with `res` and the state `o`.
Stopped(res, o) ==
    [res |-> res, data |-> <<>>, sector_cache |-> o.sector_cache,
     block_cache |-> o.block_cache, yolo_cache |-> o.yolo_cache,
     yolo_cache_file |-> o.yolo_cache_file]

\* BlockPointer::get_ondisk_size
BlockPointerSize == 128

\* ChecksumMethod::from_value accepts the values 0..14.
ChecksumMethods ==
    <<"Inherit", "On", "Off", "Label", "GangHeader", "Zilog", "Fletcher2",
      "Fletcher4", "Sha256", "Zilog2", "NoParity", "Sha512", "Skein", "Edonr",
      "Blake3">>

\* DataVirtualAddress::from_bytes_le on the 16 bytes that start at data[i]:
\* the padding byte of the first word is ignored, a DVA of all zeroes does
\* not exist, and the gang bit is the top bit of the second word (the scaled
\* u64 keeps the low bits of the offset).
DvaFromBytesLe(data, i) ==
    LET vdev_id == from_le_bytes(data, i + 1, 3)
        grid_and_asize == from_le_bytes(data, i + 4, 4)
    IN  IF /\ vdev_id = 0
           /\ grid_and_asize = 0
           /\ \A j \in 8..15 : data[i + j] = 0
        THEN NoDva
        ELSE [vdev_id |-> vdev_id,
              offset_in_512b_sectors |-> from_le_bytes(data, i + 8, 8),
              is_gang |-> data[i + 15] >= 128]

\* NormalBlockPointer::from_bytes_le on the 128 bytes `data`.
NormalFromBytesLe(data) ==
    LET info == SubSeq(data, 49, 56)
        typ == info[7]
        checksum == info[6]
        compression == info[5] % 128
    IN  IF Len(data) < BlockPointerSize
        THEN [some |-> FALSE]
        ELSE IF info[5] >= 128 \/ (info[8] \div 32) % 2 # 0 \/ info[8] < 128
        THEN [some |-> FALSE]
        ELSE IF typ >= ObjTypeCount \/ checksum >= Len(ChecksumMethods)
        THEN [some |-> FALSE]
        ELSE IF compression >= Len(CompressionMethods)
        THEN [some |-> FALSE]
        ELSE [some |-> TRUE,
              embedded |-> FALSE,
              dvas |-> <<DvaFromBytesLe(data, 1), DvaFromBytesLe(data, 17),
                         DvaFromBytesLe(data, 33)>>,
              checksum |-> <<from_le_bytes(data, 97, 8),
                             from_le_bytes(data, 105, 8),
                             from_le_bytes(data, 113, 8),
                             from_le_bytes(data, 121, 8)>>,
              checksum_method |-> ChecksumMethods[checksum + 1],
              compression_method |-> CompressionMethods[compression + 1],
              logical_size_in_512b_sectors_minus_one |-> info[1] + 256 * info[2],
              physical_size_in_512b_sectors_minus_one |-> info[3] + 256 * info[4]]

\* BlockPointer::from_bytes_le: the embedded bit of the info word selects
\* the parser.
BlockPointerFromBytesLe(data) ==
    IF Len(data) < 56
    THEN [some |-> FALSE]
    ELSE IF data[53] >= 128
    THEN Bind(EmbeddedFromBytesLe(data), LAMBDA e :
             IF e.some THEN e @@ [embedded |-> TRUE] ELSE [some |-> FALSE])
    ELSE NormalFromBytesLe(data)

\* BlockPointer::dereference: the possible outcomes in state `st`.
PointerDereference(bp, st, ovf) ==
    IF "embedded" \in DOMAIN bp /\ bp.embedded
    THEN {[Stopped(embedded_dereference(bp).res, st)
               EXCEPT !.data = embedded_dereference(bp).data]}
    ELSE dereference(bp, st.sector_cache, st.block_cache, st.yolo_cache,
                     st.yolo_cache_file, ovf)

\* DNodeBase::parse_indirect_block_size
parse_indirect_block_size(d) == Pow2(d.indirect_blocksize_log2)

\* blocks_per_indirect_block of read_block
blocks_per_indirect_block(d) == parse_indirect_block_size(d) \div BlockPointerSize

\* The tag with the quotient and the remainder exchanged.
next_level_id_and_offset_exchanged(current_level_id, per_indirect_block) ==
    [parent_id |-> current_level_id % per_indirect_block,
     offset |-> current_level_id \div per_indirect_block]

\* DNodeBase::next_level_id_and_offset
next_level_id_and_offset(current_level_id, per_indirect_block) ==
    [parent_id |-> current_level_id \div per_indirect_block,
     offset |-> current_level_id % per_indirect_block]

\* levels[level - 1] of read_block: the tags from the leaves to the root.
RECURSIVE LevelTag(_, _, _)
LevelTag(d, block_id, level) ==
    next_level_id_and_offset(
        IF level = 1 THEN block_id ELSE LevelTag(d, block_id, level - 1).parent_id,
        IF level = d.n_indirect_levels
        THEN Len(d.block_pointers)
        ELSE blocks_per_indirect_block(d))

\* What the walk has done so far: the slots it selected and the number of
\* dereferences it made.
Walked(o, slots, n) ==
    [res |-> o.res, data |-> o.data, sector_cache |-> o.sector_cache,
     block_cache |-> o.block_cache, yolo_cache |-> o.yolo_cache,
     yolo_cache_file |-> o.yolo_cache_file, slots |-> slots,
     dereferences |-> n]

\* The way back down of read_block from the pointer `bp` of level `level`.
RECURSIVE Descend(_, _, _, _, _, _, _, _)
Descend(d, block_id, level, bp, st, ovf, slots, n) ==
    UNION {
        IF o.res # "ok"
        THEN {Walked([o EXCEPT !.data = <<>>], slots, n + 1)}
        ELSE IF level = 1
        THEN {IF Len(o.data) # parse_data_block_size(d)
              THEN Walked([o EXCEPT !.res = "panic", !.data = <<>>], slots, n + 1)
              ELSE Walked(o, slots, n + 1)}
        ELSE Bind(LevelTag(d, block_id, level - 1), LAMBDA cur_level :
             Bind(SubSeq(o.data, BlockPointerSize * cur_level.offset + 1,
                         Min(Len(o.data),
                             BlockPointerSize * (cur_level.offset + 1))),
                  LAMBDA bytes :
             Bind(BlockPointerFromBytesLe(bytes), LAMBDA next_block_pointer :
                 IF BlockPointerSize * cur_level.offset > Len(o.data)
                 THEN {Walked([o EXCEPT !.res = "err", !.data = <<>>], slots, n + 1)}
                 ELSE IF ~next_block_pointer.some
                 THEN {Walked([o EXCEPT !.res = "err", !.data = <<>>], slots, n + 1)}
                 ELSE Descend(d, block_id, level - 1, next_block_pointer, o, ovf,
                              Append(slots, cur_level.offset), n + 1)))) :
           o \in PointerDereference(bp, st, ovf)}

\* DNodeBase::read_block: the possible outcomes of one call in state `st`.
\* The divisions by a branching factor of zero and the index past the
\* pointers of the dnode are panics.
read_block(d, block_id, st, ovf) ==
    LET stopped(res) == Walked(Stopped(res, st), <<>>, 0)
    IN  IF block_id > d.max_indirect_block_id
        THEN {stopped("err")}
        ELSE IF d.n_indirect_levels < 1
        THEN {stopped("panic")}
        ELSE IF d.n_indirect_levels > 1 /\ blocks_per_indirect_block(d) = 0
        THEN {stopped("panic")}
        ELSE IF Len(d.block_pointers) = 0
        THEN {stopped("panic")}
        ELSE Bind(LevelTag(d, block_id, d.n_indirect_levels), LAMBDA top_level :
                 IF top_level.offset >= Len(d.block_pointers)
                 THEN {stopped("panic")}
                 ELSE Descend(d, block_id, d.n_indirect_levels,
                              d.block_pointers[top_level.offset + 1], st, ovf,
                              <<top_level.offset>>, 0))

\* The number of blocks read after the first one, rounded down.
blocks_to_read_floor(size_remaining, bs) == size_remaining \div bs

\* The number of blocks read after the first one.
blocks_to_read(size_remaining, bs) ==
    IF size_remaining % bs = 0
    THEN size_remaining \div bs
    ELSE (size_remaining \div bs) + 1

\* The loop of read over block_index in from..blocks, `st` holding `result`.
RECURSIVE ReadLoop(_, _, _, _, _, _)
ReadLoop(d, first, from, blocks, st, ovf) ==
    IF from > blocks
    THEN {st}
    ELSE UNION {IF o.res # "ok"
                THEN {o}
                ELSE ReadLoop(d, first, from + 1, blocks,
                              [o EXCEPT !.data = st.data \o o.data], ovf) :
                   o \in read_block(d, first + from, st, ovf)}

\* The end of read: the result is cut to `size` and must have that length.
ReadResize(st, size) ==
    IF st.res # "ok"
    THEN st
    ELSE IF Len(st.data) >= size
    THEN [st EXCEPT !.data = SubSeq(st.data, 1, size)]
    ELSE Stopped("panic", st)

\* DNodeBase::read: the possible outcomes of one call in state `st`.
read(d, offset, size, st, ovf) ==
    LET bs == parse_data_block_size(d)
    IN  IF size = 0
        THEN {[Stopped("ok", st) EXCEPT !.data = <<>>]}
        ELSE IF bs = 0
        THEN {Stopped("panic", st)}
        ELSE UNION {
            IF o.res # "ok"
            THEN {o}
            ELSE Bind([o EXCEPT !.data = SubSeq(o.data, (offset % bs) + 1,
                                                Len(o.data))],
                      LAMBDA f :
                 IF Len(f.data) >= size
                 THEN {ReadResize(f, size)}
                 ELSE {ReadResize(l, size) :
                          l \in ReadLoop(d, offset \div bs, 1,
                                         blocks_to_read(size - Len(f.data), bs),
                                         f, ovf)}) :
               o \in read_block(d, offset \div bs, st, ovf)}

\* aggregated_read_block over the fragments from..Len(list).
RECURSIVE aggregated_read_block(_, _, _, _, _)
aggregated_read_block(list, from, block_id, st, ovf) ==
    IF from > Len(list)
    THEN {Stopped("none", st)}
    ELSE IF list[from].kind # "FileDNode"
    THEN aggregated_read_block(list, from + 1, block_id, st, ovf)
    ELSE UNION {IF o.res = "ok"
                THEN {[o EXCEPT !.res = "some"]}
                ELSE IF o.res = "err"
                THEN aggregated_read_block(list, from + 1, block_id, o, ovf)
                ELSE {o} :
                   o \in read_block(list[from].dnode, block_id, st, ovf)}

\* The state a call starts in.
CallState ==
    [sector_cache |-> sector_cache, block_cache |-> block_cache,
     yolo_cache |-> yolo_cache, yolo_cache_file |-> yolo_cache_file]

DNodeNone ==
    [op |-> "none", k |-> 0, block_id |-> 0, offset |-> 0, size |-> 0,
     res |-> "none", data |-> <<>>]

\* The build's overflow behaviour matters to the calls only through YOLO.
DNodeOverflows == IF yolo_feature THEN OverflowOutcomes ELSE {"panic"}

\* file_list[k].read(offset, size, vdevs)
DNodeRead(k, offset, size) ==
    /\ machine = "dnode"
    /\ dnode_req.op = "none"
    /\ k \in 1..Len(file_list)
    /\ file_list[k].kind = "FileDNode"
    /\ \E ovf \in DNodeOverflows :
       \E out \in read(file_list[k].dnode, offset, size, CallState, ovf) :
          /\ sector_cache' = out.sector_cache
          /\ block_cache' = out.block_cache
          /\ yolo_cache' = out.yolo_cache
          /\ yolo_cache_file' = out.yolo_cache_file
          /\ dnode_req' = [DNodeNone EXCEPT !.op = "read", !.k = k,
                              !.offset = offset, !.size = size,
                              !.res = out.res, !.data = out.data]
    /\ UNCHANGED <<machine, devices, ndevices, nparity, asize, vdev0,
                   yolo_feature, checksum_map, zio_req, zio_ops, file_list,
                   dnodeOthers>>

\* aggregated_read_block(&mut file_list, block_id, vdevs)
AggregatedReadBlock(block_id) ==
    /\ machine = "dnode"
    /\ dnode_req.op = "none"
    /\ \E ovf \in DNodeOverflows :
       \E out \in aggregated_read_block(file_list, 1, block_id, CallState, ovf) :
          /\ sector_cache' = out.sector_cache
          /\ block_cache' = out.block_cache
          /\ yolo_cache' = out.yolo_cache
          /\ yolo_cache_file' = out.yolo_cache_file
          /\ dnode_req' = [DNodeNone EXCEPT !.op = "aggregated_read_block",
                              !.block_id = block_id,
                              !.res = out.res, !.data = out.data]
    /\ UNCHANGED <<machine, devices, ndevices, nparity, asize, vdev0,
                   yolo_feature, checksum_map, zio_req, zio_ops, file_list,
                   dnodeOthers>>

\* A dnode with the given fields.
DNode(levels, sectors, max_id, bps) ==
    [n_indirect_levels |-> levels, data_blocksize_in_sectors |-> sectors,
     max_indirect_block_id |-> max_id, block_pointers |-> bps,
     indirect_blocksize_log2 |-> 17]

\* The pointer a writer would have stored for the `size` bytes at `off`.
GoodPointer(off, size) ==
    BlockPointer(<<DvaFrom(0, off, FALSE)>>, ChecksumAt(off, size, "Fletcher4"),
                 "Fletcher4", "Off", size, size)

\* A pointer whose block was overwritten.
LostPointer ==
    BlockPointer(<<DvaFrom(0, 0, FALSE)>>, GarbageChecksum, "Fletcher4", "Off",
                 DvaUnit, DvaUnit)

\* The dnodes of the model: whole files of one-unit and two-unit blocks, a
\* file whose block ids go round its pointers, files with a lost block,
\* a file with a block of the wrong size, and dnodes whose header fields
\* (levels, block size, parsed pointers) are degenerate.
DNodes ==
    {DNode(1, 1, 2, <<GoodPointer(0, DvaUnit), GoodPointer(DvaUnit, DvaUnit),
                      GoodPointer(2 * DvaUnit, DvaUnit)>>),
     DNode(1, 1, 2, <<GoodPointer(0, DvaUnit), LostPointer,
                      GoodPointer(2 * DvaUnit, DvaUnit)>>),
     DNode(1, 1, 2, <<LostPointer, GoodPointer(DvaUnit, DvaUnit),
                      GoodPointer(2 * DvaUnit, DvaUnit)>>),
     DNode(1, 1, 3, <<GoodPointer(DvaUnit, DvaUnit),
                      GoodPointer(0, DvaUnit)>>),
     DNode(1, 2, 1, <<GoodPointer(0, 2 * DvaUnit),
                      GoodPointer(4 * DvaUnit, 2 * DvaUnit)>>),
     DNode(1, 1, 1, <<GoodPointer(0, DvaUnit), GoodPointer(0, 2 * DvaUnit)>>),
     DNode(0, 1, 0, <<GoodPointer(0, DvaUnit)>>),
     DNode(1, 0, 0, <<GoodPointer(0, DvaUnit)>>),
     DNode(1, 1, 0, <<>>)}

\* The fragments recover.rs keeps: file dnodes and everything else.
Fragments ==
    {[kind |-> "FileDNode", dnode |-> d] : d \in DNodes}
        \cup {[kind |-> "DirectoryDNode", dnode |-> DNode(1, 1, 0, <<>>)]}

ReadOffsets == {0, 5, DvaUnit, DvaUnit + 5, 2 * DvaUnit + 1, 3 * DvaUnit}

ReadSizes ==
    {0, 1, DvaUnit - 5, DvaUnit, 2 * DvaUnit - 5, 2 * DvaUnit, 3 * DvaUnit}

InitDNode ==
    /\ machine = "dnode"
    /\ vdev0 = "raidz"
    /\ yolo_feature = FALSE
    /\ ndevices = 4
    /\ nparity = 1
    /\ asize = DvaUnit
    /\ devices = PoolFromLinear(LinearBytes, ndevices, asize)
    /\ checksum_map = <<>>
    /\ sector_cache = <<>>
    /\ block_cache = <<>>
    /\ yolo_cache = LoadYoloCache({})
    /\ yolo_cache_file = {}
    /\ zio_req = ZioNone
    /\ zio_ops = 0
    /\ file_list \in {<<f>> : f \in Fragments}
                        \cup {<<f, g>> : f \in Fragments, g \in Fragments}
    /\ dnode_req = DNodeNone
    /\ IdleUnless({"pool", "zio", "dnode"})

NextDNode ==
    \/ \E k \in 1..2, offset \in ReadOffsets, size \in ReadSizes :
          DNodeRead(k, offset, size)
    \/ \E block_id \in 0..3 : AggregatedReadBlock(block_id)

SpecDNode == InitDNode /\ [][NextDNode]_vars

\* The outcome of read_block(i) on the dnode of the last read.
BlockNow(i) ==
    CHOOSE o \in read_block(file_list[dnode_req.k].dnode, i, CallState, "panic") :
        TRUE

\* The blocks that overlap [offset, offset + size) when blocks have bs bytes.
Covered(offset, size, bs) == (offset \div bs)..((offset + size - 1) \div bs)

(***************************************************************************)
(* C3: d.read(offset, 0) succeeds with an empty result.  For size > 0,     *)
(* d.read(offset, size) succeeds iff read_block(i) succeeds for every      *)
(* block i that overlaps [offset, offset + size), and then byte n of the   *)
(* result is byte (offset + n) mod bs of read_block((offset + n) div bs),  *)
(* that is the result is bytes [offset, offset + size) of the blocks laid  *)
(* end to end; a read that does not succeed returns no data.  A dnode      *)
(* whose block size is zero has no readable block, and no read of it with  *)
(* size > 0 succeeds.                                                      *)
(***************************************************************************)
ReadIsTheCoveredBlocksEndToEnd ==
    dnode_req.op = "read" =>
        LET d == file_list[dnode_req.k].dnode
            bs == parse_data_block_size(d)
            offset == dnode_req.offset
            size == dnode_req.size
        IN  /\ size = 0 => dnode_req.res = "ok" /\ dnode_req.data = <<>>
            /\ dnode_req.res # "ok" => dnode_req.data = <<>>
            /\ (size > 0 /\ bs > 0) =>
                  Bind([i \in Covered(offset, size, bs) |-> BlockNow(i)],
                       LAMBDA blocks :
                      /\ dnode_req.res = "ok" <=>
                            \A i \in DOMAIN blocks : blocks[i].res = "ok"
                      /\ dnode_req.res = "ok" =>
                            dnode_req.data =
                                [n \in 1..size |->
                                    blocks[(offset + n - 1) \div bs]
                                        .data[((offset + n - 1) % bs) + 1]])
            /\ (size > 0 /\ bs = 0) =>
                  /\ dnode_req.res # "ok"
                  /\ \A i \in 0..d.max_indirect_block_id : BlockNow(i).res # "ok"

\* A read that starts inside one block and ends inside a later one.
ReadAcrossBlocks ==
    /\ dnode_req.op = "read"
    /\ dnode_req.res = "ok"
    /\ LET bs == parse_data_block_size(file_list[dnode_req.k].dnode)
       IN  /\ bs > 0
           /\ dnode_req.offset % bs # 0
           /\ (dnode_req.offset + dnode_req.size) % bs # 0
           /\ Cardinality(Covered(dnode_req.offset, dnode_req.size, bs)) >= 3
    /\ \E n \in 2..Len(dnode_req.data) : dnode_req.data[n] # dnode_req.data[1]

\* The outcome of read_block(block_id) on fragment k of the list.
FragmentBlockNow(k, block_id) ==
    CHOOSE o \in read_block(file_list[k].dnode, block_id, CallState, "panic") :
        TRUE

\* The FileDNode fragments of the list whose read_block(block_id) succeeds.
Readers(block_id) ==
    {k \in 1..Len(file_list) :
        /\ file_list[k].kind = "FileDNode"
        /\ FragmentBlockNow(k, block_id).res = "ok"}

(***************************************************************************)
(* C9 (as stated): aggregated_read_block(files, i) returns the result of   *)
(* the first FileDNode fragment, in list order, whose read_block(i)        *)
(* succeeds, and returns nothing iff read_block(i) succeeds for no         *)
(* fragment of the list; so a block that at least one fragment can read is *)
(* always returned.                                                        *)
(***************************************************************************)
AggregatedReadReturnsFirstSuccess ==
    dnode_req.op = "aggregated_read_block" =>
        Bind(Readers(dnode_req.block_id), LAMBDA readers :
            IF readers = {}
            THEN dnode_req.res = "none"
            ELSE /\ dnode_req.res = "some"
                 /\ dnode_req.data =
                        FragmentBlockNow(
                            CHOOSE k \in readers : \A j \in readers : k <= j,
                            dnode_req.block_id).data)

(***************************************************************************)
(* zap.rs: ZapLeaf::dump_contents_into on a parsed fat ZAP leaf.  Chunk    *)
(* ids count from 0; names and values are byte sequences.                  *)
(***************************************************************************)
\* u16::MAX, the end of a chain of chunks
U16Max == 65535

\* ZapLeafChunk::get_byte_array_size
ZapArraySize == 21

EntryChunk(int_size, next_chunk_id, name_chunk_id, name_length, value_chunk_id, nvalues) ==
    [type |-> "Entry", int_size |-> int_size, next_chunk_id |-> next_chunk_id,
     name_chunk_id |-> name_chunk_id, name_length |-> name_length,
     value_chunk_id |-> value_chunk_id, nvalues |-> nvalues]

ArrayChunk(array, next_chunk_id) ==
    [type |-> "Array", array |-> array, next_chunk_id |-> next_chunk_id]

FreeChunk(next_chunk_id) == [type |-> "Free", next_chunk_id |-> next_chunk_id]

\* The end of read_data_starting_at_chunk: too little data is None.
ReadDone(data, size) ==
    IF Len(data) < size
    THEN [res |-> "none", data |-> <<>>]
    ELSE [res |-> "some", data |-> SubSeq(data, 1, size)]

\* The loop of read_data_starting_at_chunk with chunk_to_read = chunks[chunk_id].
\* A size of usize::MAX on a chain that goes round never ends.
RECURSIVE ReadChunks(_, _, _, _, _)
ReadChunks(chunks, chunk_id, size, data, steps) ==
    LET chunk_to_read == chunks[chunk_id + 1]
    IN  IF Len(data) >= size
        THEN ReadDone(data, size)
        ELSE IF chunk_to_read.type # "Array"
        THEN [res |-> "none", data |-> <<>>]
        ELSE IF chunk_to_read.next_chunk_id = U16Max
        THEN ReadDone(data \o chunk_to_read.array, size)
        ELSE IF chunk_to_read.next_chunk_id >= Len(chunks)
        THEN [res |-> "panic", data |-> <<>>]
        ELSE IF size = U64Mod - 1 /\ steps > Len(chunks)
        THEN [res |-> "diverge", data |-> <<>>]
        ELSE ReadChunks(chunks, chunk_to_read.next_chunk_id, size,
                        data \o chunk_to_read.array, steps + 1)

\* ZapLeaf::read_data_starting_at_chunk
read_data_starting_at_chunk(leaf, chunk_id, size) ==
    IF chunk_id >= Len(leaf.chunks)
    THEN [res |-> "panic", data |-> <<>>]
    ELSE ReadChunks(leaf.chunks, chunk_id, size, <<>>, 0)

\* std::str::from_utf8(..).ok() on the names of the model, whose bytes are
\* ASCII or 0xFF.
IsUtf8(bytes) == \A i \in 1..Len(bytes) : bytes[i] < 128

\* The value of an entry, or the todo!() of the sizes that are not read.
ZapValue(int_size, nvalues, value_chunk) ==
    LET many == [i \in 1..nvalues |->
                    from_be_bytes(value_chunk, (i - 1) * int_size + 1, int_size)]
    IN  IF int_size \in {1, 2, 8} /\ nvalues = 1
        THEN [res |-> "some",
              value |-> [kind |-> int_size, v |-> from_be_bytes(value_chunk, 1, int_size)]]
        ELSE IF int_size \in {1, 2, 8} /\ nvalues > 1
        THEN [res |-> "some", value |-> [kind |-> int_size, v |-> many]]
        ELSE [res |-> "panic", value |-> <<>>]

\* HashMap::insert
ZapInsert(hashmap, name, value) ==
    [n \in (DOMAIN hashmap) \cup {name} |->
        IF n = name THEN value ELSE hashmap[n]]

\* The number of bytes of a name: name_length - 1 in usize.
NameSize(name_length, ovf) ==
    IF name_length > 0
    THEN [res |-> "some", size |-> name_length - 1]
    ELSE IF ovf = "panic"
    THEN [res |-> "panic", size |-> 0]
    ELSE [res |-> "some", size |-> U64Mod - 1]

\* The loop of dump_contents_into from chunk i (counted from 1).
RECURSIVE DumpChunks(_, _, _, _)
DumpChunks(leaf, i, hashmap, ovf) ==
    IF i > Len(leaf.chunks)
    THEN [res |-> "some", hashmap |-> hashmap]
    ELSE IF leaf.chunks[i].type # "Entry"
    THEN DumpChunks(leaf, i + 1, hashmap, ovf)
    ELSE
    LET chunk == leaf.chunks[i]
        size == NameSize(chunk.name_length, ovf)
        name_chunk == read_data_starting_at_chunk(leaf, chunk.name_chunk_id,
                                                  size.size)
        value_chunk == read_data_starting_at_chunk(leaf, chunk.value_chunk_id,
                                                   chunk.nvalues * chunk.int_size)
        value == ZapValue(chunk.int_size, chunk.nvalues, value_chunk.data)
    IN  IF size.res # "some"
        THEN [res |-> size.res, hashmap |-> hashmap]
        ELSE IF name_chunk.res # "some"
        THEN [res |-> name_chunk.res, hashmap |-> hashmap]
        ELSE IF value_chunk.res # "some"
        THEN [res |-> value_chunk.res, hashmap |-> hashmap]
        ELSE IF ~IsUtf8(name_chunk.data)
        THEN [res |-> "none", hashmap |-> hashmap]
        ELSE IF value.res # "some"
        THEN [res |-> "panic", hashmap |-> hashmap]
        ELSE IF name_chunk.data \in DOMAIN hashmap
        THEN [res |-> "panic",
              hashmap |-> ZapInsert(hashmap, name_chunk.data, value.value)]
        ELSE DumpChunks(leaf, i + 1,
                        ZapInsert(hashmap, name_chunk.data, value.value), ovf)

\* ZapLeaf::dump_contents_into
dump_contents_into(leaf, hashmap, ovf) == DumpChunks(leaf, 1, hashmap, ovf)

ZapNone == [op |-> "none", res |-> "none", before |-> <<>>]

\* zap_leaf.dump_contents_into(&mut zap_hashmap)
DumpContentsInto(ovf) ==
    /\ machine = "zap"
    /\ zap_req.op = "none"
    /\ LET out == dump_contents_into(zap_leaf, zap_hashmap, ovf)
       IN  /\ zap_hashmap' = out.hashmap
           /\ zap_req' = [op |-> "dump_contents_into", res |-> out.res,
                          before |-> zap_hashmap]
    /\ UNCHANGED <<machine, zap_leaf, zapOthers>>

\* 21 bytes that start with `bytes`.
Padded(bytes) == bytes \o [i \in 1..(ZapArraySize - Len(bytes)) |-> 0]

\* The name "a", the name "b", a name that is not UTF-8.
NameA == Padded(<<97>>)

NameB == Padded(<<98>>)

NameBad == Padded(<<255>>)

\* The big-endian u64 258 and zeros.
ValueBytes == Padded(<<0, 0, 0, 0, 0, 0, 1, 2>>)

\* The entries of chunk 0: names in chunk 2, 3 or 4, values in chunk 4, in an
\* entry or past the last chunk, of every kind of size, alone or before
\* chunk 1 in a hash chain.
FirstEntries ==
    {EntryChunk(sv[1], next, name, len, value, sv[2]) :
        sv \in {<<8, 1>>, <<8, 3>>, <<1, 2>>, <<4, 1>>},
        next \in {U16Max, 1}, name \in {2, 3, 4}, len \in {0, 2},
        value \in {4, 0, 7}}

\* The leaves of the model: five chunks and a hash table of two buckets.
ZapLeaves ==
    {[hash_table |-> h, chunks |-> <<c0, c1, c2, c3, c4>>] :
        h \in {<<U16Max, U16Max>>, <<0, U16Max>>, <<0, 1>>, <<1, U16Max>>},
        c0 \in FirstEntries \cup {FreeChunk(U16Max)},
        c1 \in {FreeChunk(U16Max), EntryChunk(8, U16Max, 2, 2, 4, 1),
                EntryChunk(8, U16Max, 3, 2, 4, 1)},
        c2 \in {ArrayChunk(NameA, U16Max), ArrayChunk(NameBad, U16Max),
                FreeChunk(U16Max)},
        c3 \in {ArrayChunk(NameA, U16Max), ArrayChunk(NameB, U16Max)},
        c4 \in {ArrayChunk(ValueBytes, U16Max), ArrayChunk(ValueBytes, 3),
                ArrayChunk(ValueBytes, 4)}}

InitZap ==
    /\ machine = "zap"
    /\ zap_leaf \in ZapLeaves
    /\ zap_hashmap \in {<<>>, ZapInsert(<<>>, <<98>>, [kind |-> 8, v |-> 0])}
    /\ zap_req = ZapNone
    /\ IdleUnless({"zap"})

NextZap == \E ovf \in OverflowOutcomes : DumpContentsInto(ovf)

SpecZap == InitZap /\ [][NextZap]_vars

\* The chunks on the hash chains of the leaf: those the hash table names
\* and those an entry on a chain names as its next_chunk_id.
RECURSIVE ChainClosure(_, _)
ChainClosure(leaf, ids) ==
    LET more == {leaf.chunks[c + 1].next_chunk_id : c \in ids} \cup ids
        next == {c \in more : c < Len(leaf.chunks)
                                 /\ leaf.chunks[c + 1].type = "Entry"}
    IN  IF next = ids THEN ids ELSE ChainClosure(leaf, next)

ReachableEntries(leaf) ==
    ChainClosure(leaf, {c \in {leaf.hash_table[i] : i \in DOMAIN leaf.hash_table} :
                           c < Len(leaf.chunks) /\ leaf.chunks[c + 1].type = "Entry"})

\* All Entry chunks of the leaf.
AllEntries(leaf) ==
    {c \in 0..(Len(leaf.chunks) - 1) : leaf.chunks[c + 1].type = "Entry"}

\* The name of the Entry chunk c.
EntryName(leaf, c) ==
    read_data_starting_at_chunk(leaf, leaf.chunks[c + 1].name_chunk_id,
                                leaf.chunks[c + 1].name_length - 1).data

\* The names the last dump added to the map.
DumpedNames == (DOMAIN zap_hashmap) \ (DOMAIN zap_req.before)

(***************************************************************************)
(* C10 (as stated): for any fat ZAP leaf, the names that the dump returns  *)
(* for that leaf are the names of the Entry chunks reachable from the      *)
(* leaf's hash table, an Entry chunk that is not reachable contributes no  *)
(* name, and no name appears twice.                                        *)
(***************************************************************************)
LeafDumpIsTheHashChains ==
    (zap_req.op = "dump_contents_into" /\ zap_req.res = "some") =>
        /\ DumpedNames =
              {EntryName(zap_leaf, c) : c \in ReachableEntries(zap_leaf)}
        /\ Cardinality(DumpedNames) = Cardinality(ReachableEntries(zap_leaf))

(***************************************************************************)
(* bin/surgeon.rs and bin/apply-binpatch.rs: the binary patch.             *)
(***************************************************************************)
\* Every value of eight bytes that is at least this large is held as this
\* value: no file of the model is that long.
PatchHuge == 16777216

\* u64::from_le_bytes of the eight bytes of buf.
u64_from_le_bytes(buf) ==
    IF \E i \in 4..8 : buf[i] # 0
    THEN PatchHuge
    ELSE buf[1] + 256 * buf[2] + 65536 * buf[3]

\* The magic numbers a compressed squashfs block begins and ends with.
XzHeader == <<253, 55, 122, 88, 90, 0>>

XzFooter == <<89, 90>>

\* The test surgeon makes on the bytes of one combination.
IsXzBlock(combination_data) ==
    /\ SubSeq(combination_data, 1, 6) = XzHeader
    /\ SubSeq(combination_data, Len(combination_data) - 1,
              Len(combination_data)) = XzFooter

\* One record as surgeon writes it.
PatchRecord(file_offset, data) ==
    to_le_bytes(file_offset) \o to_be_bytes(Len(data)) \o data

\* The file offset up to which surgeon is given squashfs blocks.
MaxPatchOffset == 123

\* The body of surgeon's loop for one squashfs block of `ondisk_size` bytes
\* whose combinations of file blocks give the byte strings `combinations`
\* (none when no recovery is attempted).
SurgeonBlock(ondisk_size, combinations) ==
    /\ machine = "patch"
    /\ patch_pc = "surgeon"
    /\ current_squashfs_block_file_offset + ondisk_size <= MaxPatchOffset
    /\ IF ondisk_size = 0
       THEN UNCHANGED <<patch_pc, current_squashfs_block_file_offset,
                        binary_patch_file, patch_emitted>>
       ELSE IF combinations # {} /\ ondisk_size < 6
       THEN /\ patch_pc' = "surgeon_panic"
            /\ UNCHANGED <<current_squashfs_block_file_offset,
                           binary_patch_file, patch_emitted>>
       ELSE LET res_data == {c \in combinations : IsXzBlock(c)}
            IN  IF Cardinality(res_data) > 1
                THEN /\ patch_pc' = "surgeon_panic"
                     /\ UNCHANGED <<current_squashfs_block_file_offset,
                                    binary_patch_file, patch_emitted>>
                ELSE /\ patch_pc' = patch_pc
                     /\ current_squashfs_block_file_offset' =
                            current_squashfs_block_file_offset + ondisk_size
                     /\ IF Cardinality(res_data) = 1
                        THEN LET data == CHOOSE c \in res_data : TRUE
                             IN  /\ binary_patch_file' =
                                        binary_patch_file \o
                                        PatchRecord(
                                          current_squashfs_block_file_offset,
                                          data)
                                 /\ patch_emitted' = Append(patch_emitted,
                                        [offset |->
                                           current_squashfs_block_file_offset,
                                         length |-> Len(data),
                                         bytes |-> data])
                        ELSE UNCHANGED <<binary_patch_file, patch_emitted>>
    /\ UNCHANGED <<machine, patch_offset, patch_target, patch_applied,
                   patchOthers>>

\* surgeon returns from main; apply-binpatch is started on the patch it left.
SurgeonExit ==
    /\ machine = "patch"
    /\ patch_pc = "surgeon"
    /\ patch_pc' = "apply"
    /\ patch_offset' = 0
    /\ UNCHANGED <<machine, current_squashfs_block_file_offset,
                   binary_patch_file, patch_emitted, patch_target,
                   patch_applied, patchOthers>>

\* File::read_exact_at: the bytes, or nothing when the file ends before.
read_exact_at(file, amount, offset) ==
    IF offset + amount > Len(file)
    THEN [ok |-> FALSE, data |-> <<>>]
    ELSE [ok |-> TRUE, data |-> SubSeq(file, offset + 1, offset + amount)]

\* File::write_all_at on the target.
write_all_at(file, data, offset) ==
    [x \in (DOMAIN file) \cup {offset + i - 1 : i \in 1..Len(data)} |->
        IF x >= offset /\ x < offset + Len(data)
        THEN data[x - offset + 1]
        ELSE file[x]]

\* One turn of the loop of apply-binpatch: two u64 and the bytes are read
\* from the patch and the bytes are written to the target.  A read that
\* fails ends the program (unwrap).
ApplyRecord ==
    /\ machine = "patch"
    /\ patch_pc = "apply"
    /\ patch_offset < Len(binary_patch_file)
    /\ LET buf1 == read_exact_at(binary_patch_file, 8, patch_offset)
           buf2 == read_exact_at(binary_patch_file, 8, patch_offset + 8)
       IN  IF ~buf1.ok \/ ~buf2.ok
           THEN /\ patch_pc' = "apply_panic"
                /\ UNCHANGED <<patch_offset, patch_target, patch_applied>>
           ELSE LET target_offset == u64_from_le_bytes(buf1.data)
                    amount_to_copy == u64_from_le_bytes(buf2.data)
                    data_buf == read_exact_at(binary_patch_file,
                                              amount_to_copy,
                                              patch_offset + 16)
                IN  IF ~data_buf.ok
                    THEN /\ patch_pc' = "apply_panic"
                         /\ UNCHANGED <<patch_offset, patch_target,
                                        patch_applied>>
                    ELSE /\ patch_pc' = patch_pc
                         /\ patch_offset' =
                                patch_offset + 16 + amount_to_copy
                         /\ patch_target' = write_all_at(patch_target,
                                                data_buf.data, target_offset)
                         /\ patch_applied' = Append(patch_applied,
                                [offset |-> target_offset,
                                 length |-> amount_to_copy,
                                 bytes |-> data_buf.data])
    /\ UNCHANGED <<machine, current_squashfs_block_file_offset,
                   binary_patch_file, patch_emitted, patchOthers>>

\* The loop of apply-binpatch ends at the end of the patch.
ApplyExit ==
    /\ machine = "patch"
    /\ patch_pc = "apply"
    /\ patch_offset >= Len(binary_patch_file)
    /\ patch_pc' = "apply_done"
    /\ UNCHANGED <<machine, current_squashfs_block_file_offset,
                   binary_patch_file, patch_emitted, patch_offset,
                   patch_target, patch_applied, patchOthers>>

\* The sizes of the squashfs blocks and the bytes their combinations give.
OndiskSizes == {0, 4, 8, 9}

CombinationData ==
    {XzHeader \o XzFooter, XzHeader \o <<0, 0>>,
     XzHeader \o <<1>> \o XzFooter, XzHeader \o <<2>> \o XzFooter,
     <<0, 0, 0, 0>>}

InitPatch ==
    /\ machine = "patch"
    /\ patch_pc = "surgeon"
    /\ current_squashfs_block_file_offset = 96
    /\ binary_patch_file = <<>>
    /\ patch_emitted = <<>>
    /\ patch_offset = 0
    /\ patch_target = <<>>
    /\ patch_applied = <<>>
    /\ IdleUnless({"patch"})

NextPatch ==
    \/ \E n \in OndiskSizes :
          \E c \in SUBSET {d \in CombinationData : Len(d) = n} :
              SurgeonBlock(n, c)
    \/ SurgeonExit
    \/ ApplyRecord
    \/ ApplyExit

SpecPatch == InitPatch /\ [][NextPatch]_vars

\* The target after the records are written at their offsets, in order.
RECURSIVE TargetAfter(_, _, _)
TargetAfter(file, records, i) ==
    IF i > Len(records)
    THEN file
    ELSE TargetAfter(write_all_at(file, records[i].bytes, records[i].offset),
                     records, i + 1)

(***************************************************************************)
(* C11 (as stated): when apply-binpatch has ended on the patch surgeon     *)
(* wrote, the records it parsed and wrote are the records surgeon emitted, *)
(* in order, and the target holds the bytes of each at its offset.         *)
(***************************************************************************)
BinpatchRoundTrip ==
    patch_pc \in {"apply_done", "apply_panic"} =>
        /\ patch_applied = patch_emitted
        /\ patch_target = TargetAfter(<<>>, patch_emitted, 1)

(***************************************************************************)
(* bin/build-checksum-table.rs: the table of sector checksums, built in    *)
(* runs that may be interrupted and started again.                         *)
(***************************************************************************)
\* size_of::<ChecksumTableEntry>()
EntrySize == 4

\* u32::to_le_bytes
u32_to_le_bytes(n) ==
    <<n % 256, (n \div 256) % 256, (n \div 65536) % 256, 0>>

\* The resume offset taken for the file length in sectors.
LastOffOfLength(checksum_map_file_size, sector_size) ==
    checksum_map_file_size * sector_size

\* last_off: the offset of the first sector that has no entry in the file.
LastOff(checksum_map_file_size, sector_size) ==
    (checksum_map_file_size \div EntrySize) * sector_size

\* The number of runs of the program.
MaxTableRuns == 3

\* main up to the loop: the pool is opened (a fresh sector cache), the file
\* is opened for appending and the resume offset is taken from its length.
TableStart ==
    /\ machine = "table"
    /\ table_pc \in {"stopped", "killed", "finished", "panic"}
    /\ table_runs < MaxTableRuns
    /\ table_runs' = table_runs + 1
    /\ sector_cache' = <<>>
    /\ last_off' = LastOff(Len(checksum_map_file), asize)
    /\ table_off' = LastOff(Len(checksum_map_file), asize)
    /\ table_pc' = "running"
    /\ UNCHANGED <<machine, devices, ndevices, nparity, asize, block_cache,
                   checksum_map_file, tableOthers>>

\* One turn of the loop: the sector at `off` is read (unwrap), its fletcher4
\* is truncated to an entry and the entry is appended to the file.
TableStep ==
    /\ machine = "table"
    /\ table_pc = "running"
    /\ table_off < RaidzSize
    /\ LET res == RaidzReadFrom(sector_cache, table_off, asize)
       IN  /\ sector_cache' = res.cache
           /\ IF ~res.ok
              THEN /\ table_pc' = "panic"
                   /\ UNCHANGED <<table_off, checksum_map_file>>
              ELSE LET checksum == do_fletcher4(res.data)
                       to_write == checksum[1] % U32Mod
                   IN  /\ checksum_map_file' =
                              checksum_map_file \o u32_to_le_bytes(to_write)
                       /\ table_off' = table_off + asize
                       /\ table_pc' = table_pc
    /\ UNCHANGED <<machine, devices, ndevices, nparity, asize, block_cache,
                   last_off, table_runs, tableOthers>>

\* The loop ends at the end of the pool and main returns.
TableExit ==
    /\ machine = "table"
    /\ table_pc = "running"
    /\ table_off >= RaidzSize
    /\ table_pc' = "finished"
    /\ UNCHANGED <<machine, poolVars, last_off, table_off, checksum_map_file,
                   table_runs, tableOthers>>

\* The run is interrupted between two turns of the loop.
TableInterrupt ==
    /\ machine = "table"
    /\ table_pc = "running"
    /\ table_pc' = "killed"
    /\ UNCHANGED <<machine, poolVars, last_off, table_off, checksum_map_file,
                   table_runs, tableOthers>>

\* A pool whose leaves end in the middle of a sector.
ShortPool(n, len) ==
    [d \in 0..(n - 1) |-> LeafOf([i \in 1..len |-> PoolByte(d, i - 1)])]

\* VdevRaidz::from_vdevs(devices, 4, 1, 2^ashift) and an absent table.
InitTable ==
    /\ machine = "table"
    /\ ndevices = 4
    /\ nparity = 1
    /\ asize \in {DvaUnit, 2 * DvaUnit}
    /\ devices \in {IdentityPool(4), ShortPool(4, BodyLen - DvaUnit \div 2)}
    /\ sector_cache = <<>>
    /\ block_cache = <<>>
    /\ table_pc = "stopped"
    /\ last_off = 0
    /\ table_off = 0
    /\ checksum_map_file = <<>>
    /\ table_runs = 0
    /\ IdleUnless({"pool", "table"})

NextTable == TableStart \/ TableStep \/ TableExit \/ TableInterrupt

SpecTable == InitTable /\ [][NextTable]_vars

\* The bytes of logical sector i of the pool: sector i div N of leaf i mod N.
LogicalSector(i) ==
    [t \in 1..asize |->
        DeviceByte(i % ndevices, (i \div ndevices) * asize + t - 1)]

\* Logical sector i lies inside the leaves.
SectorExists(i) ==
    InBody(i % ndevices, (i \div ndevices) * asize + asize - 1)

(***************************************************************************)
(* C12: whatever runs were interrupted between two sector writes and       *)
(* started again, checksum-map.bin holds whole entries, entry i is the low *)
(* 32 bits of the first fletcher4 word of logical sector i for every i     *)
(* below length / 4, and a run resumes at sector length / 4 and stays at   *)
(* the first sector without an entry: no sector is skipped or written      *)
(* twice.                                                                  *)
(***************************************************************************)
ChecksumTableIsAPrefix ==
    table_pc # "idle" =>
        /\ Len(checksum_map_file) % EntrySize = 0
        /\ \A i \in 0..(Len(checksum_map_file) \div EntrySize - 1) :
              /\ SectorExists(i)
              /\ from_le_bytes(checksum_map_file, i * EntrySize + 1, EntrySize)
                     = do_fletcher4(LogicalSector(i))[1] % U32Mod
        /\ table_pc = "running" =>
              table_off = (Len(checksum_map_file) \div EntrySize) * asize
        /\ table_pc \in {"running", "killed", "finished", "panic"} =>
              last_off % asize = 0 /\ last_off <= table_off

\* A run that resumed in the middle of the table has completed it.
ResumedRunCompletedTheTable ==
    /\ table_pc = "finished"
    /\ last_off > 0
    /\ last_off < RaidzSize
    /\ Len(checksum_map_file) = EntrySize * (RaidzSize \div asize)

(***************************************************************************)
(* The block cache and the dereferences that fail.                         *)
(***************************************************************************)
\* The key of the pointer of the call `req` in the block cache.
BlockCacheKey(req) == <<req.bp.checksum, req.bp.checksum_method>>

\* The call `req` is a dereference that returned Err on the RAIDZ vdev.
FailedDereference(req) ==
    vdev0 = "raidz" /\ req.op = "dereference" /\ req.res = "err"

\* A step that ends a failing dereference leaves an entry under the key of
\* the pointer, and one that repeats a failed dereference is answered by
\* that entry: no sector is read.
FailedDereferenceStep ==
    FailedDereference(zio_req') =>
        /\ LruHas(block_cache', BlockCacheKey(zio_req'))
        /\ (FailedDereference(zio_req)
              /\ BlockCacheKey(zio_req) = BlockCacheKey(zio_req')) =>
                 (zio_req'.path = "cache" /\ sector_cache' = sector_cache)

(***************************************************************************)
(* C13 (as stated): after the dereference of a normal block pointer has    *)
(* failed on every DVA (and in the YOLO fallback), the block cache holds   *)
(* an entry under (checksum, checksum kind), and a repeated dereference    *)
(* with the same key fails from the cache without reading a DVA again.     *)
(***************************************************************************)
FailedDereferenceIsRemembered == [][FailedDereferenceStep]_vars

(***************************************************************************)
(* lib.rs VdevLabel and bin/fs-walker.rs: the uberblock ring of label 0.   *)
(* The label is 256 KiB; the bytes of the ring are kept as the uberblocks  *)
(* written into it, by the offset in the ring they start at, and every     *)
(* other byte of the ring is zero.                                         *)
(***************************************************************************)
\* data[128 * 1024..]: where the ring starts in the label.
RingStart == 128 * 1024

\* A slot of zero bytes.
EmptySlot == [magic |-> to_le_bytes(0), txg |-> to_le_bytes(0), rootbp |-> <<>>]

\* VdevLabel::from_bytes: the length of uberblocks_raw.
uberblocks_raw_len(label) == label.len - RingStart

\* The count taken over the whole label instead of the ring.
get_raw_uberblock_count_of_label(label, uberblock_size) ==
    label.len \div uberblock_size

\* VdevLabel::get_raw_uberblock_count
get_raw_uberblock_count(label, uberblock_size) ==
    uberblocks_raw_len(label) \div uberblock_size

\* VdevLabel::get_raw_uberblock: the slice of the ring at index * size, seen
\* as the uberblock that starts there.
get_raw_uberblock(label, uberblock_size, index) ==
    IF (index * uberblock_size) \in DOMAIN label.ring
    THEN label.ring[index * uberblock_size]
    ELSE EmptySlot

\* main, lines 68-71: the slot size is set to 2^ashift and every slot of the
\* ring is taken in turn.
WalkerLabel ==
    /\ machine = "walker"
    /\ walker_pc = "label"
    /\ LET uberblock_size == Pow2(top_level_ashift)
       IN  label0' =
               [i \in 1..get_raw_uberblock_count(raw_label, uberblock_size) |->
                   get_raw_uberblock(raw_label, uberblock_size, i - 1)]
    /\ walker_pc' = "parse"
    /\ UNCHANGED <<machine, poolVars, zioVars, uberblocks, walker_idx,
                   active_uberblock, walkerOthers>>

\* The slot size a pool of the given ashift is written with.
WrittenSlotSize(ashift) == Max(1024, Pow2(ashift))

\* A label whose ring holds the uberblocks `written`: slot number -> slot, in
\* slots of the size the pool is written with.
RawLabel(ashift, written) ==
    [len |-> LabelSize,
     ring |-> [o \in {k * WrittenSlotSize(ashift) : k \in DOMAIN written} |->
                  written[o \div WrittenSlotSize(ashift)]]]

\* The two slots of the ring that are written.
WrittenSlots == {0, 16}

InitLabel ==
    /\ machine = "walker"
    /\ vdev0 = "raidz"
    /\ yolo_feature \in BOOLEAN
    /\ ndevices = 4
    /\ nparity = 1
    /\ asize = DvaUnit
    /\ devices = PoolFromLinear(LinearBytes, ndevices, asize)
    /\ checksum_map = ChecksumTable
    /\ sector_cache = <<>>
    /\ block_cache = <<>>
    /\ yolo_cache = LoadYoloCache({})
    /\ yolo_cache_file = {}
    /\ zio_req = ZioNone
    /\ zio_ops = 0
    /\ top_level_ashift \in {11, 12}
    /\ \E written \in [WrittenSlots -> UberblockSlots] :
          raw_label = RawLabel(top_level_ashift, written)
    /\ label0 = <<>>
    /\ uberblocks = <<>>
    /\ walker_pc = "label"
    /\ walker_idx = 0
    /\ active_uberblock = <<>>
    /\ IdleUnless({"pool", "zio", "walker", "label"})

NextLabel == WalkerLabel \/ NextWalker

SpecLabel == InitLabel /\ [][NextLabel]_vars

\* The uberblock written in slot k of the ring.
Written(k) == raw_label.ring[k * WrittenSlotSize(top_level_ashift)]

\* The label of the claim: ashift 12, magic uberblocks in slots 0 and 16.
LabelOfAshift12 ==
    /\ top_level_ashift = 12
    /\ raw_label.len = 256 * 1024
    /\ ValidMagic(Written(0))
    /\ ValidMagic(Written(16))

\* What the walker does with the ring once it has taken `count` slots: the
\* written uberblocks are slots 0 and 16, and the uberblock selected is
\* one of them.
RingEnumerated(count) ==
    /\ Len(label0) = count
    /\ label0[1] = Written(0)
    /\ label0[17] = Written(16)
    /\ \E i \in 1..Len(label0) : ValidMagic(label0[i])
    /\ walker_pc = "found" => active_uberblock[1].slot \in {1, 17}

(***************************************************************************)
(* C14 (as the code behaves): given a 256 KiB label with ashift 12 and     *)
(* magic uberblocks at slot 0 and slot 16, the walker enumerates 32 slots  *)
(* (the 128 KiB of the ring in slots of 4096 bytes), at least one of which *)
(* has the magic 0x00bab10c, and the uberblock it selects is the one of    *)
(* the two with the highest TXG among those whose root pointer             *)
(* dereferences.                                                           *)
(***************************************************************************)
WalkerEnumerates32Slots ==
    (LabelOfAshift12 /\ walker_pc # "label") =>
        /\ RingEnumerated(32)
        /\ WalkerSelectsNewestDereferenceable

\* The walker selected the uberblock of slot 16 of such a label.
WalkerSelectedSlot16 ==
    /\ LabelOfAshift12
    /\ walker_pc = "found"
    /\ active_uberblock[1].slot = 17
    /\ active_uberblock[1].txg > from_le_bytes(Written(0).txg, 1, 8)

(***************************************************************************)
(* C14 (as stated): given a 256 KiB label with ashift 12 and magic         *)
(* uberblocks at slot 0 and slot 16, the walker enumerates 128 slots, at   *)
(* least one of which has the magic, and the highest-TXG one is selected.  *)
(***************************************************************************)
WalkerEnumerates128Slots ==
    (LabelOfAshift12 /\ walker_pc # "label") =>
        /\ RingEnumerated(128)
        /\ walker_pc = "found" =>
              \A i \in 1..Len(label0) :
                  ValidMagic(label0[i]) =>
                      from_le_bytes(label0[i].txg, 1, 8)
                          <= active_uberblock[1].txg

(***************************************************************************)
(* The calls on embedded block pointers.                                   *)
(***************************************************************************)
\* BlockPointer::from_bytes_le on bytes whose embedded bit may be set: the
\* call keeps the pointer parsed, or nothing.
EmbeddedParse(data) ==
    /\ machine = "embedded"
    /\ zio_req.op = "none"
    /\ LET bp == EmbeddedFromBytesLe(data)
       IN  zio_req' = [ZioNone EXCEPT !.op = "from_bytes_le",
                          !.physical = data,
                          !.bp = bp,
                          !.res = IF bp.some THEN "some" ELSE "none"]
    /\ UNCHANGED <<machine, poolVars, vdev0, yolo_feature, yolo_cache,
                   yolo_cache_file, checksum_map, zio_ops, zioOthers>>

\* BlockPointer::dereference of the embedded pointer that was parsed.
EmbeddedDereference ==
    /\ machine = "embedded"
    /\ zio_req.op = "from_bytes_le"
    /\ zio_req.res = "some"
    /\ LET out == embedded_dereference(zio_req.bp)
       IN  zio_req' = [zio_req EXCEPT !.op = "dereference",
                          !.res = out.res, !.data = out.data]
    /\ UNCHANGED <<machine, poolVars, vdev0, yolo_feature, yolo_cache,
                   yolo_cache_file, checksum_map, zio_ops, zioOthers>>

\* `bytes` followed by zeros up to n bytes.
ZeroPadded(bytes, n) == bytes \o [i \in 1..(n - Len(bytes)) |-> 0]

\* The 128 bytes of a pointer with the given payload, info word and txg.
EmbeddedBytes(payload, info) ==
    SubSeq(payload, 1, 48) \o info \o SubSeq(payload, 49, 72)
        \o to_le_bytes(MaxTxg) \o SubSeq(payload, 73, 112)

\* The payloads of the model: 'h', an LZJB stream, an LZ4 stream, and a
\* payload without a zero byte.
EmbeddedPayloads ==
    {ZeroPadded(<<104>>, 112), ZeroPadded(SubSeq(LzjbBlock, 1, 4), 112),
     ZeroPadded(SubSeq(Lz4Block, 1, 9), 112), [i \in 1..112 |-> i]}

EmbeddedInfos ==
    {InfoBytes(lsize, psize, compression, embedded, 0, typ, 0, encrypted, endian) :
        lsize \in {0, 7, 15, 16, 300}, psize \in {0, 3, 7, 8, 15, 111, 200},
        compression \in {2, 3, 15, 5, 17}, embedded \in {0, 1},
        typ \in {19, 54}, encrypted \in {0, 1}, endian \in {0, 1}}

InitEmbedded ==
    /\ machine = "embedded"
    /\ vdev0 = "none" /\ yolo_feature = FALSE /\ yolo_cache = <<>>
    /\ yolo_cache_file = {} /\ checksum_map = <<>>
    /\ zio_req = ZioNone /\ zio_ops = 0
    /\ IdleUnless({"zio"})

NextEmbedded ==
    \/ \E payload \in EmbeddedPayloads, info \in EmbeddedInfos :
          EmbeddedParse(EmbeddedBytes(payload, info))
    \/ \E n \in {0, 56, 127} : EmbeddedParse([i \in 1..n |-> 0])
    \/ EmbeddedDereference

SpecEmbedded == InitEmbedded /\ [][NextEmbedded]_vars

\* The embedded pointer that was parsed has been dereferenced.
EmbeddedDereferenced == machine = "embedded" /\ zio_req.op = "dereference"

\* The pointer of the example: logical size field 7, compression off, a
\* payload of 'h' followed by zeros.
PointerOfH ==
    /\ EmbeddedDereferenced
    /\ zio_req.bp.logical_size_in_bytes = 7
    /\ zio_req.bp.compression_method = "Off"
    /\ zio_req.bp.payload = ZeroPadded(<<104>>, 112)

HAndSevenZeros == <<104, 0, 0, 0, 0, 0, 0, 0>>

(***************************************************************************)
(* C15 (as the code behaves): the dereference of an embedded block pointer *)
(* reads nothing from the pool and verifies no checksum; it returns Ok or  *)
(* Err, and when Ok the bytes are the decompression, by the compression    *)
(* kind of the pointer, of the first physical-size bytes of the payload,   *)
(* and they are exactly logical-size bytes long; without compression it is *)
(* Ok exactly when the physical size (at most 112) equals the logical      *)
(* size.  With logical size field 7, physical size field 7, compression    *)
(* off and a payload of 'h' followed by zeros the result is 'h' followed   *)
(* by seven zero bytes.                                                    *)
(***************************************************************************)
EmbeddedDereferenceIsInline ==
    EmbeddedDereferenced =>
        LET bp == zio_req.bp
            lsize == bp.logical_size_in_bytes + 1
            psize == bp.physical_size_in_bytes + 1
            cut == SubSeq(bp.payload, 1, Min(Len(bp.payload), psize))
        IN  /\ zio_req.res \in {"ok", "err"}
            /\ sector_cache = <<>> /\ block_cache = <<>>
            /\ zio_req.res = "ok" =>
                  /\ Len(zio_req.data) = lsize
                  /\ bp.compression_method = "Off" => zio_req.data = cut
                  /\ bp.compression_method = "Lzjb" =>
                        zio_req.data = lzjb_decompress(cut, lsize).data
                  /\ bp.compression_method \in {"Off", "On", "Lzjb", "Lz4"}
            /\ bp.compression_method = "Off" =>
                  (zio_req.res = "ok" <=> Len(cut) = lsize)
            /\ (PointerOfH /\ bp.physical_size_in_bytes = 7) =>
                  (zio_req.res = "ok" /\ zio_req.data = HAndSevenZeros)

\* The pointer of the example with physical size field 7 was dereferenced.
DereferencedPointerOfH ==
    /\ PointerOfH
    /\ zio_req.bp.physical_size_in_bytes = 7
    /\ zio_req.res = "ok"

(***************************************************************************)
(* C15 (as stated): the dereference of an embedded pointer returns exactly *)
(* logical-size bytes or fails, and with logical size field 7, compression *)
(* off and a payload of 'h' followed by zeros the result is 'h' followed   *)
(* by seven zero bytes.                                                    *)
(***************************************************************************)
EmbeddedPointerOfHGivesH ==
    EmbeddedDereferenced =>
        /\ zio_req.res = "ok" =>
              Len(zio_req.data) = zio_req.bp.logical_size_in_bytes + 1
        /\ PointerOfH => (zio_req.res = "ok" /\ zio_req.data = HAndSevenZeros)

(***************************************************************************)
(* dmu.rs: read_block over indirect trees.  A tree of L levels under k     *)
(* pointers is written to a VdevFile the way a pool writes it: the data    *)
(* blocks from left to right, then the indirect blocks of each level, each *)
(* holding the 128-byte pointers to its children.                          *)
(***************************************************************************)
\* indirect_blocksize_log2 of the trees: two pointers per indirect block.
TreeShift == 8

MaxTreeLevels == 3

MaxTreePointers == 3

TreeFanout == Pow2(TreeShift) \div BlockPointerSize

RECURSIVE Pow(_, _)
Pow(b, e) == IF e = 0 THEN 1 ELSE b * Pow(b, e - 1)

\* The i-th data block of a file, one DVA unit long.
LeafBlock(i) == <<i + 1, 0, 0, 0, 0, 0, 0, 0, 0, 0, 0, 0, 0, 0, 0, 0>>

\* The blocks of height m (0 for the data blocks) in a tree of L levels
\* under k pointers, their size, and where the j-th of them is written.
LevelCount(L, k, m) == k * Pow(TreeFanout, L - 1 - m)

LevelSize(m) == IF m = 0 THEN DvaUnit ELSE Pow2(TreeShift)

RECURSIVE LevelStart(_, _, _)
LevelStart(L, k, m) ==
    IF m = 0
    THEN 0
    ELSE LevelStart(L, k, m - 1) + LevelCount(L, k, m - 1) * LevelSize(m - 1)

BlockOffset(L, k, m, j) == LevelStart(L, k, m) + j * LevelSize(m)

\* The eight little-endian bytes of a (scaled) u64.
u64_to_le_bytes(n) ==
    <<n % 256, (n \div 256) % 256, (n \div 65536) % 256,
      (n \div 16777216) % 256, 0, 0, 0, 0>>

\* The 16 bytes of a DVA, with an allocated size of one sector.
DvaBytes(dva) ==
    IF dva = NoDva
    THEN [i \in 1..16 |-> 0]
    ELSE <<0, dva.vdev_id % 256, (dva.vdev_id \div 256) % 256, 0, 0, 1, 0, 0>>
             \o [u64_to_le_bytes(dva.offset_in_512b_sectors)
                    EXCEPT ![8] = IF dva.is_gang THEN 128 ELSE 0]

\* The position of a name in a list of names, from 0.
ValueOf(names, name) == (CHOOSE i \in DOMAIN names : names[i] = name) - 1

\* The 128 bytes of a normal block pointer of a plain file: three DVAs, the
\* info word, three words of padding, the birth txg, the fill count and the
\* checksum.
PointerBytes(bp) ==
    DvaBytes(bp.dvas[1])
        \o DvaBytes(IF Len(bp.dvas) >= 2 THEN bp.dvas[2] ELSE NoDva)
        \o DvaBytes(IF Len(bp.dvas) >= 3 THEN bp.dvas[3] ELSE NoDva)
        \o <<bp.logical_size_in_512b_sectors_minus_one % 256,
             bp.logical_size_in_512b_sectors_minus_one \div 256,
             bp.physical_size_in_512b_sectors_minus_one % 256,
             bp.physical_size_in_512b_sectors_minus_one \div 256,
             ValueOf(CompressionMethods, bp.compression_method),
             ValueOf(ChecksumMethods, bp.checksum_method),
             19, 128>>
        \o [i \in 1..24 |-> 0]
        \o u64_to_le_bytes(1) \o u64_to_le_bytes(1)
        \o u64_to_le_bytes(bp.checksum[1]) \o u64_to_le_bytes(bp.checksum[2])
        \o u64_to_le_bytes(bp.checksum[3]) \o u64_to_le_bytes(bp.checksum[4])

\* The j-th block of height m, and the pointer a writer stores for it, with
\* the fletcher2 checksum of the block.
RECURSIVE TreeBlock(_, _, _, _)
RECURSIVE TreePointer(_, _, _, _)
RECURSIVE TreeChildren(_, _, _, _, _)
TreeBlock(L, k, m, j) ==
    IF m = 0 THEN LeafBlock(j) ELSE TreeChildren(L, k, m, j, 0)

TreeChildren(L, k, m, j, s) ==
    IF s >= TreeFanout
    THEN <<>>
    ELSE PointerBytes(TreePointer(L, k, m - 1, j * TreeFanout + s))
             \o TreeChildren(L, k, m, j, s + 1)

TreePointer(L, k, m, j) ==
    BlockPointer(<<DvaFrom(0, BlockOffset(L, k, m, j), FALSE)>>,
                 do_fletcher2(TreeBlock(L, k, m, j)), "Fletcher2", "Off",
                 LevelSize(m), LevelSize(m))

\* The bytes of the blocks of height m, in the order of their offsets.
LevelBytes(L, k, m) ==
    Bind([j \in 1..LevelCount(L, k, m) |-> TreeBlock(L, k, m, j - 1)],
         LAMBDA blocks :
             [x \in 1..(LevelCount(L, k, m) * LevelSize(m)) |->
                 blocks[((x - 1) \div LevelSize(m)) + 1]
                       [((x - 1) % LevelSize(m)) + 1]])

\* The bytes of the tree from height m up: the data blocks come first.
RECURSIVE TreeBytesFrom(_, _, _)
TreeBytesFrom(L, k, m) ==
    IF m >= L
    THEN <<>>
    ELSE LevelBytes(L, k, m) \o TreeBytesFrom(L, k, m + 1)

TreeBytes(L, k) == TreeBytesFrom(L, k, 0)

\* The dnode of the tree: its k pointers are those of the highest blocks.
TreeDNode(L, k, max_id) ==
    [DNode(L, 1, max_id, [j \in 1..k |-> TreePointer(L, k, L - 1, j - 1)])
        EXCEPT !.indirect_blocksize_log2 = TreeShift]

\* file_list[1].read_block(block_id, vdevs)
IndirectReadBlock(block_id) ==
    /\ machine = "indirect"
    /\ dnode_req.op = "none"
    /\ \E out \in read_block(file_list[1].dnode, block_id, CallState, "panic") :
          /\ sector_cache' = out.sector_cache
          /\ block_cache' = out.block_cache
          /\ yolo_cache' = out.yolo_cache
          /\ yolo_cache_file' = out.yolo_cache_file
          /\ dnode_req' = [DNodeNone EXCEPT !.op = "read_block",
                              !.k = 1, !.block_id = block_id,
                              !.res = out.res, !.data = out.data]
                              @@ [slots |-> out.slots,
                                  dereferences |-> out.dereferences]
    /\ UNCHANGED <<machine, devices, ndevices, nparity, asize, vdev0,
                   yolo_feature, checksum_map, zio_req, zio_ops, file_list,
                   dnodeOthers>>

\* A whole tree on a VdevFile; the dnode declares all of its blocks, one
\* fewer, or more than it has.
InitIndirect ==
    /\ machine = "indirect"
    /\ vdev0 = "file"
    /\ yolo_feature = FALSE
    /\ ndevices = 0 /\ nparity = 0 /\ asize = 0
    /\ checksum_map = <<>>
    /\ sector_cache = <<>>
    /\ block_cache = <<>>
    /\ yolo_cache = LoadYoloCache({})
    /\ yolo_cache_file = {}
    /\ zio_req = ZioNone
    /\ zio_ops = 0
    /\ \E L \in 1..MaxTreeLevels, k \in 1..MaxTreePointers :
       \E max_id \in {LevelCount(L, k, 0) - 2, LevelCount(L, k, 0) - 1,
                      LevelCount(L, k, 0) + 1} :
          /\ max_id >= 0
          /\ devices = [d \in {0} |-> LeafOf(TreeBytes(L, k))]
          /\ file_list = <<[kind |-> "FileDNode", dnode |-> TreeDNode(L, k, max_id)]>>
    /\ dnode_req = DNodeNone
    /\ IdleUnless({"pool", "zio", "dnode"})

NextIndirect ==
    \E block_id \in 0..(MaxTreePointers * Pow(TreeFanout, MaxTreeLevels - 1) + 1) :
        IndirectReadBlock(block_id)

SpecIndirect == InitIndirect /\ [][NextIndirect]_vars

\* The tree of the state: its levels, its pointers and its data blocks.
TreeLevels == file_list[1].dnode.n_indirect_levels

TreeTop == Len(file_list[1].dnode.block_pointers)

TreeLeaves == TreeTop * Pow(TreeFanout, TreeLevels - 1)

\* The slots of the path to data block i, from level m up to the root.
RECURSIVE PathTo(_, _)
PathTo(i, m) ==
    IF m = TreeLevels
    THEN <<i \div Pow(TreeFanout, TreeLevels - 1)>>
    ELSE Append(PathTo(i, m + 1), (i \div Pow(TreeFanout, m - 1)) % TreeFanout)

\* read_block was called on a block the tree and the dnode both have.
ReadBlockInTree ==
    /\ machine = "indirect"
    /\ dnode_req.op = "read_block"
    /\ dnode_req.block_id < TreeLeaves
    /\ dnode_req.block_id <= file_list[1].dnode.max_indirect_block_id

(***************************************************************************)
(* C16: for a dnode with L >= 1 indirection levels, k block pointers and   *)
(* branching factor B, read_block(i) with i < k * B^(L-1) and              *)
(* i <= max_indirect_block_id selects the top-level pointer i div B^(L-1)  *)
(* and at each lower level m the slot (i div B^(m-1)) mod B, returns the   *)
(* i-th data block of the tree in left-to-right order, of exactly the data *)
(* block size, and makes exactly L dereferences.                           *)
(***************************************************************************)
ReadBlockWalksTheIndirectTree ==
    ReadBlockInTree =>
        /\ dnode_req.res = "ok"
        /\ dnode_req.slots = PathTo(dnode_req.block_id, 1)
        /\ dnode_req.data = LeafBlock(dnode_req.block_id)
        /\ Len(dnode_req.data) = parse_data_block_size(file_list[1].dnode)
        /\ dnode_req.dereferences = TreeLevels

\* The last data block of a tree of three levels under three pointers was
\* read through the second slot of both indirect blocks.
ReadLastBlockOfDeepTree ==
    /\ ReadBlockInTree
    /\ TreeLevels = 3
    /\ TreeTop = 3
    /\ dnode_req.block_id = 11
    /\ dnode_req.slots = <<2, 1, 1>>
    /\ dnode_req.dereferences = 3
    /\ dnode_req.data = LeafBlock(11)

(***************************************************************************)
(* zio.rs: DataVirtualAddress::dereference on RAIDZ vdevs whose leaves     *)
(* hold a different byte at every offset.                                  *)
(***************************************************************************)
\* Body size of the leaves: four sectors of one DVA unit.
DvaBodyLen == 64

DvaPool(n) ==
    [d \in 0..(n - 1) |->
        LeafOf([i \in 1..DvaBodyLen |-> (d * DvaBodyLen + i - 1) % 256])]

\* DataVirtualAddress::from(0, offset, false).dereference(vdevs, size)
DvaDereferenceAt(offset_in_bytes, size) ==
    /\ machine = "dva"
    /\ zio_ops < MaxZioOps
    /\ LET out == DvaDereference(sector_cache, DvaFrom(0, offset_in_bytes, FALSE),
                                 size)
       IN  /\ sector_cache' = out.cache
           /\ zio_req' = [ZioNone EXCEPT !.op = "dva_dereference",
                             !.bp = DvaFrom(0, offset_in_bytes, FALSE),
                             !.psize = size,
                             !.res = IF ~out.ok THEN "err"
                                     ELSE IF Len(out.data) # size THEN "panic"
                                     ELSE "ok",
                             !.data = out.data]
    /\ zio_ops' = zio_ops + 1
    /\ UNCHANGED <<machine, devices, ndevices, nparity, asize, block_cache,
                   vdev0, yolo_feature, yolo_cache, yolo_cache_file,
                   checksum_map, zioOthers>>

\* RAIDZ vdevs of two, three and four leaves with one or two parity columns,
\* fewer than the leaves, and sectors of one or two DVA units.
InitDva ==
    /\ machine = "dva"
    /\ vdev0 = "raidz"
    /\ yolo_feature = FALSE
    /\ ndevices \in {2, 3, 4}
    /\ nparity \in {1, 2}
    /\ nparity < ndevices
    /\ asize \in {DvaUnit, 2 * DvaUnit}
    /\ devices = DvaPool(ndevices)
    /\ checksum_map = <<>>
    /\ sector_cache = <<>>
    /\ block_cache = <<>>
    /\ yolo_cache = LoadYoloCache({})
    /\ yolo_cache_file = {}
    /\ zio_req = ZioNone
    /\ zio_ops = 0
    /\ IdleUnless({"pool", "zio"})

\* The offsets of the first two MiB and of the start of the third.
DvaOffsets == {k * DvaUnit : k \in 0..((2 * MiB) \div DvaUnit)}

DvaSizes == {1, DvaUnit - 1, DvaUnit, DvaUnit + 1, 2 * DvaUnit, 3 * DvaUnit,
             4 * DvaUnit, 5 * DvaUnit, 6 * DvaUnit}

NextDva ==
    \E offset_in_bytes \in DvaOffsets, size \in DvaSizes \cup {0} :
        DvaDereferenceAt(offset_in_bytes, size)

SpecDva == InitDva /\ [][NextDva]_vars

\* Byte x of the linear address space of the vdev: sector s of the vdev is
\* sector s div N of leaf s mod N.
LinearInBody(x) ==
    InBody((x \div asize) % ndevices,
           ((x \div asize) \div ndevices) * asize + (x % asize))

LinearByte(x) ==
    DeviceByte((x \div asize) % ndevices,
               ((x \div asize) \div ndevices) * asize + (x % asize))

\* The sectors read for `size` bytes: the data sectors and the parity
\* sectors of their stripes.
DataSectors(size) == CeilDiv(size, asize)

SectorsWithParity(size) ==
    DataSectors(size) + CeilDiv(DataSectors(size), ndevices - nparity) * nparity

\* The columns that hold parity in the sectors read from offset o.
ParityColumns(o) ==
    IF nparity = 1
    THEN (IF (o \div MiB) % 2 = 0 THEN {0} ELSE {1})
    ELSE 0..(nparity - 1)

\* The sectors read from offset o that lie in column c, in ascending order.
RECURSIVE ColumnOf(_, _, _)
ColumnOf(c, from, count) ==
    IF from >= count
    THEN <<>>
    ELSE (IF from % ndevices = c THEN <<from>> ELSE <<>>)
             \o ColumnOf(c, from + 1, count)

\* The data sectors in column-major order: the columns without parity in
\* ascending order, and each column from its first row to its last.
RECURSIVE ColumnMajor(_, _, _)
ColumnMajor(o, c, count) ==
    IF c >= ndevices
    THEN <<>>
    ELSE (IF c \in ParityColumns(o) THEN <<>> ELSE ColumnOf(c, 0, count))
             \o ColumnMajor(o, c + 1, count)

\* A DVA was dereferenced at o for `size` bytes.
DvaDereferenced(o, size) ==
    /\ machine = "dva"
    /\ zio_req.op = "dva_dereference"
    /\ parse_offset(zio_req.bp) = o
    /\ zio_req.psize = size

(***************************************************************************)
(* C17: dereferencing a non-gang DVA at offset o for len bytes on a RAIDZ  *)
(* vdev of N devices and P parity columns reads ceil(len / A) data sectors *)
(* and P parity sectors per stripe from o, and returns the sectors of the  *)
(* columns without parity in column-major order, cut to len; for P = 1 the *)
(* parity column is column 0 in an even MiB and column 1 in an odd one,    *)
(* so on four devices at o = 1 MiB, a multiple of four sectors, the first  *)
(* byte returned is the first byte of sector (o / A) / 4 of device 0.      *)
(***************************************************************************)
DvaDereferenceIsColumnMajor ==
    \A o \in DvaOffsets, size \in DvaSizes :
        DvaDereferenced(o, size) =>
            LET count == SectorsWithParity(size)
                order == ColumnMajor(o, 0, count)
            IN  /\ zio_req.res = "ok" <=>
                       \A x \in o..(o + count * asize - 1) : LinearInBody(x)
                /\ zio_req.res = "ok" =>
                       /\ Len(order) = DataSectors(size)
                       /\ Len(zio_req.data) = size
                       /\ \A b \in 0..(size - 1) :
                             zio_req.data[b + 1] =
                                 LinearByte(o + order[(b \div asize) + 1] * asize
                                                + (b % asize))
                       /\ (ndevices = 4 /\ nparity = 1 /\ o = MiB
                              /\ (MiB \div asize) % 4 = 0) =>
                             zio_req.data[1] =
                                 DeviceByte(0, ((MiB \div asize) \div 4) * asize)

\* Two stripes were read at 1 MiB on four devices with one parity column.
DereferencedTwoStripesAtOddMiB ==
    /\ DvaDereferenced(MiB, 4 * DvaUnit)
    /\ ndevices = 4
    /\ nparity = 1
    /\ asize = DvaUnit
    /\ zio_req.res = "ok"
    /\ zio_req.data[1] = DeviceByte(0, DvaUnit)
    /\ zio_req.data[DvaUnit + 1] = DeviceByte(0, 2 * DvaUnit)
    /\ zio_req.data[2 * DvaUnit + 1] = DeviceByte(2, DvaUnit)

(***************************************************************************)
(* zio.rs: the DVAs of a normal block pointer, looked at one by one on the *)
(* devices of the pool.                                                    *)
(***************************************************************************)
\* What DVA i of the pointer yields when it is read, checked and
\* decompressed on its own.
DvaOutcome(bp, i) ==
    Bind(DvaDereference(<<>>, bp.dvas[i], parse_physical_size(bp)), LAMBDA r :
    Bind(try_checksum_block(r.data, bp.checksum_method), LAMBDA computed :
    Bind(try_decompress_block(r.data, bp.compression_method,
                              parse_logical_size(bp)),
         LAMBDA d :
             [valid |-> /\ r.ok
                        /\ computed.some
                        /\ computed.sum = bp.checksum
                        /\ d.ok
                        /\ Len(d.data) = parse_logical_size(bp),
              read |-> r.ok,
              data |-> d.data])))

\* The present DVAs of the pointer that are valid.
ValidDvas(bp) ==
    {i \in 1..Len(bp.dvas) : bp.dvas[i] # NoDva /\ DvaOutcome(bp, i).valid}

FirstValidDva(bp) == CHOOSE i \in ValidDvas(bp) : \A j \in ValidDvas(bp) : i <= j

SupportedChecksum(bp) == try_checksum_block(<<>>, bp.checksum_method).some

\* The last call was a dereference of a block pointer.
Dereferenced == machine = "zio" /\ zio_req.op = "dereference"

(***************************************************************************)
(* C18 (as stated): a dereference returns the data of the first present    *)
(* DVA, in stored order, that reads, matches the stored checksum and       *)
(* decompresses to the logical size, whatever happened to the DVAs before  *)
(* it; it fails only when every DVA fails; and a pointer with an           *)
(* unsupported checksum kind never dereferences.                           *)
(***************************************************************************)
DereferenceReturnsFirstValidDva ==
    Dereferenced =>
        /\ ValidDvas(zio_req.bp) # {} =>
              /\ zio_req.res = "ok"
              /\ zio_req.data =
                     DvaOutcome(zio_req.bp, FirstValidDva(zio_req.bp)).data
        /\ zio_req.res = "err" => ValidDvas(zio_req.bp) = {}
        /\ ~SupportedChecksum(zio_req.bp) => zio_req.res # "ok"

(***************************************************************************)
(* C18 (amended): a dereference that is not answered by the block cache    *)
(* tries the present DVAs in stored order and returns the data of the      *)
(* first valid one; a dereference that is answered by the block cache      *)
(* returns the entry stored under (checksum, checksum kind) without trying *)
(* any DVA; a dereference succeeds through a DVA only if that DVA is       *)
(* valid, fails only when every DVA fails, and never succeeds for an       *)
(* unsupported checksum kind.                                              *)
(***************************************************************************)
DereferenceTriesDvasInOrder ==
    Dereferenced =>
        /\ (zio_req.path # "cache" /\ ValidDvas(zio_req.bp) # {}) =>
              /\ zio_req.res = "ok"
              /\ zio_req.path = "dva"
              /\ zio_req.data =
                     DvaOutcome(zio_req.bp, FirstValidDva(zio_req.bp)).data
        /\ zio_req.path = "dva" => ValidDvas(zio_req.bp) # {}
        /\ zio_req.path = "cache" =>
              /\ zio_req.res = "ok"
              /\ LruHas(block_cache, BlockCacheKey(zio_req))
              /\ zio_req.data =
                     block_cache[LruIndex(block_cache, BlockCacheKey(zio_req))].val
        /\ zio_req.res = "err" => ValidDvas(zio_req.bp) = {}
        /\ ~SupportedChecksum(zio_req.bp) => zio_req.res # "ok"

\* A dereference succeeded through the third DVA after the first one, which
\* could be read, was rejected.
DereferencedThroughLaterDva ==
    /\ Dereferenced
    /\ zio_req.res = "ok"
    /\ zio_req.path = "dva"
    /\ Len(zio_req.bp.dvas) = 3
    /\ DvaOutcome(zio_req.bp, 1).read
    /\ FirstValidDva(zio_req.bp) = 3

(***************************************************************************)
(* zap.rs: the ZAP of a dnode parsed from the bytes of its blocks and      *)
(* dumped.  A call ends with "some", with "none" (None), or with "panic".  *)
(***************************************************************************)
\* ZAP_LEAF_MAGIC = 0x2AB1EAF and FAT_ZAP_MAGIC = 0x2F52AB2AB, as the bytes
\* u32::from_bytes_le and u64::from_bytes_le read them from.
ZAP_LEAF_MAGIC == <<175, 30, 171, 2>>

FAT_ZAP_MAGIC == <<171, 178, 42, 245, 2, 0, 0, 0>>

\* ZapType::from_value of the u64 at data[i]: (1 << 63) + 3, 1 or 0.
ZapTypeAt(data, i) ==
    IF Len(data) < i + 7
    THEN "none"
    ELSE IF SubSeq(data, i + 1, i + 7) # <<0, 0, 0, 0, 0, 0, 128>>
    THEN "none"
    ELSE IF data[i] = 3 THEN "MicroZap"
    ELSE IF data[i] = 1 THEN "FatZapHeader"
    ELSE IF data[i] = 0 THEN "FatZapLeaf"
    ELSE "none"

\* ZapLeafHeader::get_ondisk_size
ZapLeafHeaderSize == 48

\* ZapLeafChunk::get_ondisk_size
ZapLeafChunkSize == 24

\* ZapLeafHeader::from_bytes_le; none of the fields of the header is used.
ZapLeafHeaderFromBytesLe(data) ==
    IF ZapTypeAt(data, 1) # "FatZapLeaf"
    THEN "none"
    ELSE IF Len(data) < 28
    THEN "none"
    ELSE IF SubSeq(data, 25, 28) # ZAP_LEAF_MAGIC
    THEN "panic"
    ELSE IF Len(data) < ZapLeafHeaderSize
    THEN "none"
    ELSE "some"

\* ZapLeafChunk::from_bytes_le of the 24 bytes at data[i].
ZapLeafChunkFromBytesLe(data, i) ==
    IF Len(data) < i + ZapLeafChunkSize - 1
    THEN [type |-> "none"]
    ELSE IF data[i] = 252
    THEN EntryChunk(data[i + 1], from_le_bytes(data, i + 2, 2),
                    from_le_bytes(data, i + 4, 2), from_le_bytes(data, i + 6, 2),
                    from_le_bytes(data, i + 8, 2), from_le_bytes(data, i + 10, 2))
    ELSE IF data[i] = 251
    THEN ArrayChunk(SubSeq(data, i + 1, i + ZapArraySize),
                    from_le_bytes(data, i + 1 + ZapArraySize, 2))
    ELSE IF data[i] = 253
    THEN FreeChunk(from_le_bytes(data, i + 1 + ZapArraySize, 2))
    ELSE [type |-> "none"]

\* ZapLeaf::get_hash_table_numentries
get_hash_table_numentries(block_size) == block_size \div 32

\* ZapLeaf::from_bytes_le
ZapLeafFromBytesLe(data, block_size) ==
    LET header == ZapLeafHeaderFromBytesLe(data)
        n == get_hash_table_numentries(block_size)
        remaining_bytes == block_size - ZapLeafHeaderSize - n * 2
        nchunks == remaining_bytes \div ZapLeafChunkSize
        hash_table == [k \in 1..n |->
                          from_le_bytes(data, ZapLeafHeaderSize + 2 * k - 1, 2)]
        chunks == [k \in 1..nchunks |->
                      ZapLeafChunkFromBytesLe(
                          data, ZapLeafHeaderSize + 2 * n
                                    + ZapLeafChunkSize * (k - 1) + 1)]
    IN  IF header # "some"
        THEN [res |-> header, leaf |-> <<>>]
        ELSE IF Len(data) < ZapLeafHeaderSize + 2 * n
        THEN [res |-> "none", leaf |-> <<>>]
        ELSE IF \E k \in 1..nchunks : chunks[k].type = "none"
        THEN [res |-> "none", leaf |-> <<>>]
        ELSE [res |-> "some",
              leaf |-> [hash_table |-> hash_table, chunks |-> chunks]]

\* The bytes of a fat ZAP header before its padding: the type, the magic,
\* the five words of the pointer table and four more words.
FatZapFixedSize == 88

\* FatZapHeader::from_bytes_le after ZapHeader::from_bytes_le read the type.
\* A block shorter than 176 bytes underflows the length of the padding.
FatZapHeaderFromBytesLe(data, block_size, ovf) ==
    LET half == block_size \div 2
        n == half \div 8
    IN  IF Len(data) < 16 \/ SubSeq(data, 9, 16) # FAT_ZAP_MAGIC
        THEN [res |-> "none", header |-> <<>>]
        ELSE IF Len(data) < FatZapFixedSize
        THEN [res |-> "none", header |-> <<>>]
        ELSE IF half < FatZapFixedSize
        THEN [res |-> IF ovf = "panic" THEN "panic" ELSE "none",
              header |-> <<>>]
        ELSE IF Len(data) < half + 8 * n
        THEN [res |-> "none", header |-> <<>>]
        ELSE [res |-> "some",
              header |->
                  [kind |-> "FatZap",
                   table |-> [block_id |-> from_le_bytes(data, 17, 8)],
                   embbeded_leafs_pointer_table |->
                       [k \in 1..n |->
                           from_le_bytes(data, half + 8 * (k - 1) + 1, 8)]]]

\* FatZapHeader::get_hash_table_size
get_hash_table_size(header) ==
    IF header.table.block_id = 0
    THEN [res |-> "some", size |-> Len(header.embbeded_leafs_pointer_table)]
    ELSE [res |-> "panic", size |-> 0]

\* FatZapHeader::read_hash_table_at
read_hash_table_at(header, index) ==
    IF header.table.block_id = 0
    THEN [res |-> "some", block_id |-> header.embbeded_leafs_pointer_table[index + 1]]
    ELSE [res |-> "panic", block_id |-> 0]

\* ZapHeader::from_bytes_le
ZapHeaderFromBytesLe(data, block_size, ovf) ==
    LET zap_type == ZapTypeAt(data, 1)
    IN  IF zap_type = "FatZapHeader"
        THEN FatZapHeaderFromBytesLe(data, block_size, ovf)
        ELSE IF zap_type = "MicroZap" /\ Len(data) >= 64
        THEN [res |-> "some", header |-> [kind |-> "MicroZap"]]
        ELSE [res |-> "none", header |-> <<>>]

\* MicroZapEntry::get_ondisk_size
MicroZapEntrySize == 64

\* What a dump leaves behind: the result and the caches of the pool.
ZapDumped(res, result, o) ==
    [res |-> res, result |-> IF res = "some" THEN result ELSE <<>>,
     sector_cache |-> o.sector_cache, block_cache |-> o.block_cache,
     yolo_cache |-> o.yolo_cache, yolo_cache_file |-> o.yolo_cache_file]

\* None for Err, the panic or the endless loop of a read otherwise.
ReadFailure(res) == IF res = "err" THEN "none" ELSE res

\* The loop of dump_contents over the hash table of a fat ZAP from index i.
RECURSIVE FatZapLoop(_, _, _, _, _, _, _)
FatZapLoop(header, d, i, leafs_read, result, st, ovf) ==
    IF i >= Len(header.embbeded_leafs_pointer_table)
    THEN {ZapDumped("some", result, st)}
    ELSE
    LET at == read_hash_table_at(header, i)
    IN  IF at.res # "some"
        THEN {ZapDumped(at.res, result, st)}
        ELSE IF at.block_id \in leafs_read
        THEN FatZapLoop(header, d, i + 1, leafs_read, result, st, ovf)
        ELSE UNION {
            IF o.res # "ok"
            THEN {ZapDumped(ReadFailure(o.res), result, o)}
            ELSE Bind(ZapLeafFromBytesLe(o.data, parse_data_block_size(d)),
                      LAMBDA leaf :
                 IF leaf.res # "some"
                 THEN {ZapDumped(leaf.res, result, o)}
                 ELSE Bind(dump_contents_into(leaf.leaf, result, ovf),
                           LAMBDA dumped :
                      IF dumped.res # "some"
                      THEN {ZapDumped(dumped.res, result, o)}
                      ELSE FatZapLoop(header, d, i + 1,
                                      leafs_read \cup {at.block_id},
                                      dumped.hashmap, o, ovf)))
            : o \in read_block(d, at.block_id, st, "panic")}

\* MicroZapEntry::from_bytes_le of the 64 bytes at data[i] followed by
\* MicroZapEntry::dump_contents_into, whose None the caller ignores.
MicroZapEntryInto(data, i, hashmap) ==
    LET name == SubSeq(data, i + 14, i + MicroZapEntrySize - 1)
        nuls == {k \in 1..Len(name) : name[k] = 0}
        nul_index == CHOOSE k \in nuls : \A l \in nuls : k <= l
        text == SubSeq(name, 1, nul_index - 1)
    IN  IF Len(data) < i + 13
        THEN [res |-> "none", hashmap |-> hashmap]
        ELSE IF Len(data) < i + MicroZapEntrySize - 1
        THEN [res |-> "panic", hashmap |-> hashmap]
        ELSE IF nuls = {}
        THEN [res |-> "some", hashmap |-> hashmap]
        ELSE IF ~IsUtf8(text) \/ text = <<>>
        THEN [res |-> "some", hashmap |-> hashmap]
        ELSE IF text \in DOMAIN hashmap
        THEN [res |-> "panic", hashmap |-> hashmap]
        ELSE [res |-> "some",
              hashmap |-> ZapInsert(hashmap, text,
                                    [kind |-> 8, v |-> from_le_bytes(data, i, 8)])]

\* The loop of dump_contents over the entries of a micro ZAP from entry k.
RECURSIVE MicroZapLoop(_, _, _, _)
MicroZapLoop(data, k, nentries, hashmap) ==
    IF k >= nentries
    THEN [res |-> "some", hashmap |-> hashmap]
    ELSE Bind(MicroZapEntryInto(data, 64 + MicroZapEntrySize * k + 1, hashmap),
              LAMBDA entry :
             IF entry.res # "some"
             THEN entry
             ELSE MicroZapLoop(data, k + 1, nentries, entry.hashmap))

\* ZapHeader::dump_contents
dump_contents(header, d, st, ovf) ==
    IF header.kind = "FatZap"
    THEN IF get_hash_table_size(header).res # "some"
         THEN {ZapDumped(get_hash_table_size(header).res, <<>>, st)}
         ELSE FatZapLoop(header, d, 0, {}, <<>>, st, ovf)
    ELSE {IF o.res # "ok"
          THEN ZapDumped(ReadFailure(o.res), <<>>, o)
          ELSE IF Len(o.data) < 64
          THEN ZapDumped("none", <<>>, o)
          ELSE Bind(MicroZapLoop(o.data, 0,
                                 (parse_data_block_size(d) - 64)
                                     \div MicroZapEntrySize, <<>>),
                    LAMBDA dumped : ZapDumped(dumped.res, dumped.hashmap, o))
          : o \in read_block(d, 0, st, "panic")}

\* ZapDNode::dump_zap_contents and DNodeDirectoryContents::dump_zap_contents:
\* get_zap_header reads block 0, dump_contents does the rest.
dump_zap_contents(d, st, ovf) ==
    UNION {
        IF o.res # "ok"
        THEN {ZapDumped(ReadFailure(o.res), <<>>, o)}
        ELSE Bind(ZapHeaderFromBytesLe(o.data, parse_data_block_size(d), ovf),
                  LAMBDA header :
             IF header.res # "some"
             THEN {ZapDumped(header.res, <<>>, o)}
             ELSE dump_contents(header.header, d, o, ovf))
        : o \in read_block(d, 0, st, "panic")}

(***************************************************************************)
(* zap.rs: dump_zap_contents on a ZAP dnode of three blocks on a VdevFile: *)
(* block 0 is the header, blocks 1 and 2 are leaves.                       *)
(***************************************************************************)
\* The data block size of the ZAP dnodes, in sectors.
ZapBlockSectors == 12

ZapBlockSize == ZapBlockSectors * DvaUnit

Zeros(n) == [i \in 1..n |-> 0]

u16_to_le_bytes(n) == <<n % 256, n \div 256>>

\* `bytes` followed by zeros up to `size` bytes.
PaddedTo(bytes, size) == bytes \o Zeros(size - Len(bytes))

ZapTypeBytes(n) == <<n, 0, 0, 0, 0, 0, 0, 128>>

\* A fat ZAP header block whose embedded table names the leaf blocks
\* `ids` in turn.
FatHeaderBytes(magic, block_id, ids) ==
    PaddedTo(ZapTypeBytes(1) \o magic \o u64_to_le_bytes(block_id),
             ZapBlockSize \div 2)
        \o [i \in 1..(ZapBlockSize \div 2) |->
               IF (i - 1) % 8 = 0
               THEN ids[(((i - 1) \div 8) % Len(ids)) + 1]
               ELSE 0]

ChunkBytes(c) ==
    IF c.type = "Entry"
    THEN PaddedTo(<<252, c.int_size>> \o u16_to_le_bytes(c.next_chunk_id)
                      \o u16_to_le_bytes(c.name_chunk_id)
                      \o u16_to_le_bytes(c.name_length)
                      \o u16_to_le_bytes(c.value_chunk_id)
                      \o u16_to_le_bytes(c.nvalues), ZapLeafChunkSize)
    ELSE IF c.type = "Array"
    THEN <<251>> \o c.array \o u16_to_le_bytes(c.next_chunk_id)
    ELSE IF c.type = "Free"
    THEN PaddedTo(<<253>>, ZapLeafChunkSize - 2)
             \o u16_to_le_bytes(c.next_chunk_id)
    ELSE Zeros(ZapLeafChunkSize)

\* A leaf block: the header, a hash table whose first bucket is chunk 0, the
\* chunks given and free chunks after them.
LeafBytes(type, magic, chunks) ==
    LET n == get_hash_table_numentries(ZapBlockSize)
        nchunks == (ZapBlockSize - ZapLeafHeaderSize - 2 * n)
                       \div ZapLeafChunkSize
        chunk(k) == IF k <= Len(chunks) THEN chunks[k] ELSE FreeChunk(U16Max)
        at(i) == ChunkBytes(chunk(((i - 1) \div ZapLeafChunkSize) + 1))
                     [((i - 1) % ZapLeafChunkSize) + 1]
    IN  PaddedTo(
            PaddedTo(ZapTypeBytes(type) \o Zeros(16) \o magic, ZapLeafHeaderSize)
                \o <<0, 0>>
                \o [i \in 1..(2 * (n - 1)) |-> 255]
                \o [i \in 1..(nchunks * ZapLeafChunkSize) |-> at(i)],
            ZapBlockSize)

\* A micro ZAP block with the entries (value, name) given.
MicroBytes(entries) ==
    PaddedTo(
        PaddedTo(ZapTypeBytes(3), 64)
            \o [i \in 1..(Len(entries) * MicroZapEntrySize) |->
                   PaddedTo(<<entries[((i - 1) \div MicroZapEntrySize) + 1][1]>>
                                \o Zeros(13)
                                \o entries[((i - 1) \div MicroZapEntrySize) + 1][2],
                            MicroZapEntrySize)[((i - 1) % MicroZapEntrySize) + 1]],
        ZapBlockSize)

\* An entry named by chunk 1 with its value in chunk 2.
LeafChunks(name) ==
    <<EntryChunk(8, U16Max, 1, 2, 2, 1), ArrayChunk(name, U16Max),
      ArrayChunk(ValueBytes, U16Max)>>

\* The header blocks of the model: fat headers with an embedded table that
\* names leaf 1, leaves 1 and 2 or a block the dnode does not have, a fat
\* header whose table is not embedded, one with a wrong magic, micro ZAPs
\* with two names and with one name twice, a leaf, and zeros.
ZapHeaderBlocks ==
    {FatHeaderBytes(FAT_ZAP_MAGIC, 0, <<1>>),
     FatHeaderBytes(FAT_ZAP_MAGIC, 0, <<1, 2>>),
     FatHeaderBytes(FAT_ZAP_MAGIC, 0, <<2, 1>>),
     FatHeaderBytes(FAT_ZAP_MAGIC, 0, <<1, 5>>),
     FatHeaderBytes(FAT_ZAP_MAGIC, 1, <<1>>),
     FatHeaderBytes(Zeros(8), 0, <<1>>),
     MicroBytes(<<<<7, <<97>>>>, <<9, <<98>>>>>>),
     MicroBytes(<<<<7, <<97>>>>, <<9, <<97>>>>>>),
     LeafBytes(0, ZAP_LEAF_MAGIC, LeafChunks(NameA)),
     Zeros(ZapBlockSize)}

\* The leaf blocks of the model: a leaf with one entry, the same with a
\* wrong magic, with the type of a header, with a chunk of no type, and
\* zeros.
ZapLeafBlocks(name) ==
    {LeafBytes(0, ZAP_LEAF_MAGIC, LeafChunks(name)),
     LeafBytes(0, <<1, 2, 3, 4>>, LeafChunks(name)),
     LeafBytes(1, ZAP_LEAF_MAGIC, LeafChunks(name)),
     LeafBytes(0, ZAP_LEAF_MAGIC, <<[type |-> "none"]>>),
     Zeros(ZapBlockSize)}

\* The pointer a writer would have stored for block `id` of the ZAP.
ZapPointer(id, block) ==
    BlockPointer(<<DvaFrom(0, id * ZapBlockSize, FALSE)>>, do_fletcher2(block),
                 "Fletcher2", "Off", ZapBlockSize, ZapBlockSize)

ZapDNode(blocks) ==
    DNode(1, ZapBlockSectors, Len(blocks) - 1,
          [k \in 1..Len(blocks) |-> ZapPointer(k - 1, blocks[k])])

\* file_list[1].dump_zap_contents(vdevs)
DumpZapContents(ovf) ==
    /\ machine = "zapdump"
    /\ zap_req.op = "none"
    /\ \E out \in dump_zap_contents(file_list[1].dnode, CallState, ovf) :
          /\ sector_cache' = out.sector_cache
          /\ block_cache' = out.block_cache
          /\ yolo_cache' = out.yolo_cache
          /\ yolo_cache_file' = out.yolo_cache_file
          /\ zap_hashmap' = out.result
          /\ zap_req' = [op |-> "dump_zap_contents", res |-> out.res,
                         before |-> <<>>]
    /\ UNCHANGED <<machine, devices, ndevices, nparity, asize, vdev0,
                   yolo_feature, checksum_map, zio_req, zio_ops, dnodeVars,
                   zap_leaf, leafVars, raidz_req, walkerVars, toolVars>>

InitZapDump ==
    /\ machine = "zapdump"
    /\ vdev0 = "file"
    /\ yolo_feature = FALSE
    /\ ndevices = 0 /\ nparity = 0 /\ asize = 0
    /\ checksum_map = <<>>
    /\ sector_cache = <<>>
    /\ block_cache = <<>>
    /\ yolo_cache = LoadYoloCache({})
    /\ yolo_cache_file = {}
    /\ zio_req = ZioNone
    /\ zio_ops = 0
    /\ \E header \in ZapHeaderBlocks, leaf1 \in ZapLeafBlocks(NameA),
          leaf2 \in ZapLeafBlocks(NameA) \cup ZapLeafBlocks(NameB) :
          /\ devices = [d \in {0} |-> LeafOf(header \o leaf1 \o leaf2)]
          /\ file_list = <<[kind |-> "DirectoryDNode",
                            dnode |-> ZapDNode(<<header, leaf1, leaf2>>)]>>
    /\ dnode_req = DNodeNone
    /\ zap_leaf = <<>>
    /\ zap_hashmap = <<>>
    /\ zap_req = ZapNone
    /\ IdleUnless({"pool", "zio", "dnode", "zap"})

NextZapDump == \E ovf \in OverflowOutcomes : DumpZapContents(ovf)

SpecZapDump == InitZapDump /\ [][NextZapDump]_vars

\* The blocks of the ZAP as they are on the device.
ZapBlock(id) == BlockAt(id * ZapBlockSize, ZapBlockSize)

\* Block 0 is a fat ZAP header and its pointer table is not embedded.
TableNotEmbedded ==
    /\ ZapHeaderFromBytesLe(ZapBlock(0), ZapBlockSize, "panic").res = "some"
    /\ ZapTypeAt(ZapBlock(0), 1) = "FatZapHeader"
    /\ from_le_bytes(ZapBlock(0), 17, 8) # 0

\* Block 0 is a fat ZAP header with an embedded table, and the first leaf it
\* names is a leaf block of the dnode whose magic is not the ZAP leaf magic.
FirstLeafHasWrongMagic ==
    /\ ZapHeaderFromBytesLe(ZapBlock(0), ZapBlockSize, "panic").res = "some"
    /\ ZapTypeAt(ZapBlock(0), 1) = "FatZapHeader"
    /\ from_le_bytes(ZapBlock(0), 17, 8) = 0
    /\ LET id == from_le_bytes(ZapBlock(0), ZapBlockSize \div 2 + 1, 8)
       IN  /\ id \in 1..2
           /\ ZapTypeAt(ZapBlock(id), 1) = "FatZapLeaf"
           /\ SubSeq(ZapBlock(id), 25, 28) # ZAP_LEAF_MAGIC

ZapDumpEnded == machine = "zapdump" /\ zap_req.op = "dump_zap_contents"

(***************************************************************************)
(* C20 (as stated): the dump of a ZAP whose first leaf has a magic that is *)
(* not the ZAP leaf magic, or whose fat header has a pointer table that is *)
(* not embedded, returns None.                                             *)
(***************************************************************************)
MalformedZapIsAbsent ==
    (ZapDumpEnded /\ (TableNotEmbedded \/ FirstLeafHasWrongMagic))
        => zap_req.res = "none"

\* The same for each of the two structures.
WrongLeafMagicIsAbsent ==
    (ZapDumpEnded /\ FirstLeafHasWrongMagic) => zap_req.res = "none"

ExternalTableIsAbsent ==
    (ZapDumpEnded /\ TableNotEmbedded) => zap_req.res = "none"

\* What does hold: the dump of such a ZAP panics, and every other dump of
\* the model ends with a result, with None or in another panic.
MalformedZapPanics ==
    ZapDumpEnded =>
        /\ (TableNotEmbedded \/ FirstLeafHasWrongMagic) => zap_req.res = "panic"
        /\ zap_req.res \in {"some", "none", "panic"}

(***************************************************************************)
(* bin/undelete.rs: search_le_bytes_for_dnodes over the sectors of a block *)
(* of data, one sector at a time.  A dnode slot keeps its 512 bytes; the   *)
(* blocks the pointers name are in DVA units.                              *)
(***************************************************************************)
\* The size of a dnode slot and of a chunk of the data.
SlotSize == 512

\* ZilHeader::get_ondisk_size: a block pointer and eight words.
ZilHeaderSize == BlockPointerSize + 64

\* BonusType::from_value accepts these values.
BonusTypes == {0, 4, 7, 12, 16, 17, 44}

\* hash_function = do_fletcher4
hash_function(data) == do_fletcher4(data)

\* DNodeBase::from_bytes_le.  Block pointers that do not parse are left out
\* of block_pointers; `size` is the number of bytes the parser went over.
DNodeBaseFromBytesLe(data) ==
    LET n_block_pointers == data[4]
        flags == data[8]
        bonus_data_len == data[11] + 256 * data[12]
        extra_slots == data[13]
        total_size == 64 + n_block_pointers * BlockPointerSize + bonus_data_len
        rounded_up_total_size ==
            IF total_size % SlotSize = 0
            THEN total_size
            ELSE ((total_size \div SlotSize) + 1) * SlotSize
        parsed == [k \in 1..n_block_pointers |->
                      BlockPointerFromBytesLe(
                          SubSeq(data, 65 + BlockPointerSize * (k - 1),
                                 64 + BlockPointerSize * k))]
    IN  IF Len(data) < 64
        THEN [some |-> FALSE]
        ELSE IF \/ data[1] >= ObjTypeCount
                \/ data[5] \notin BonusTypes
                \/ data[6] >= Len(ChecksumMethods)
                \/ data[7] >= Len(CompressionMethods)
        THEN [some |-> FALSE]
        ELSE IF (flags \div 4) % 2 # 0
        THEN [some |-> FALSE]
        ELSE IF ~(n_block_pointers >= 1 /\ n_block_pointers <= 3)
        THEN [some |-> FALSE]
        ELSE IF Len(data) < total_size
        THEN [some |-> FALSE]
        ELSE IF rounded_up_total_size # (extra_slots + 1) * SlotSize
        THEN [some |-> FALSE]
        ELSE [some |-> TRUE,
              type |-> data[1],
              bonus_type |-> data[5],
              indirect_blocksize_log2 |-> data[2],
              n_indirect_levels |-> data[3],
              data_blocksize_in_sectors |-> data[9] + 256 * data[10],
              max_indirect_block_id |-> from_le_bytes(data, 17, 8),
              block_pointers |-> SelectSeq(parsed, LAMBDA bp : bp.some),
              size |-> Min(rounded_up_total_size, Len(data))]

\* DNode::from_bytes_le: the variant of the dnode, or None for the pairs of
\* types that are not supported.
DNodeFromBytesLe(data) ==
    Bind(DNodeBaseFromBytesLe(data), LAMBDA d :
        IF ~d.some
        THEN [some |-> FALSE]
        ELSE IF d.type = 19
        THEN d @@ [kind |-> "PlainFileContents"]
        ELSE IF d.type = 20
        THEN d @@ [kind |-> "DirectoryContents"]
        ELSE IF d.type \in {1, 21, 45, 46, 47} /\ d.bonus_type = 0
        THEN d @@ [kind |-> "Zap"]
        ELSE IF d.type \in {12, 16} /\ d.bonus_type = d.type
        THEN d @@ [kind |-> "DSL"]
        ELSE [some |-> FALSE])

\* ObjSet::from_bytes_le: a metadnode of type DNode, the ZIL header and a
\* type word of 0..3.
ObjSetFromBytesLe(data) ==
    Bind(DNodeBaseFromBytesLe(data), LAMBDA metadnode :
        IF ~metadnode.some
        THEN [some |-> FALSE]
        ELSE IF metadnode.type # 10
        THEN [some |-> FALSE]
        ELSE IF Len(data) < metadnode.size + ZilHeaderSize + 8
        THEN [some |-> FALSE]
        ELSE IF \/ data[metadnode.size + ZilHeaderSize + 1] > 3
                \/ \E j \in 2..8 : data[metadnode.size + ZilHeaderSize + j] # 0
        THEN [some |-> FALSE]
        ELSE metadnode @@ [kind |-> "ObjSet"])

\* get_block_pointers().iter_mut().any(|bp| bp.dereference(vdevs).is_ok())
\* from pointer i: "ok" for true, "err" for false.
RECURSIVE AnyDereferences(_, _, _, _)
AnyDereferences(bps, i, st, ovf) ==
    IF i > Len(bps)
    THEN {Stopped("err", st)}
    ELSE UNION {IF o.res = "err"
                THEN AnyDereferences(bps, i + 1, o, ovf)
                ELSE {Stopped(o.res, o)}
                : o \in PointerDereference(bps[i], st, ovf)}

\* What the work on one sector leaves behind.
Searched(pc, res, o) ==
    [pc |-> pc, res |-> res, sector_cache |-> o.sector_cache,
     block_cache |-> o.block_cache, yolo_cache |-> o.yolo_cache,
     yolo_cache_file |-> o.yolo_cache_file]

\* HashMap::insert of a fragment.
FragmentInsert(res, hash, fragment) ==
    [h \in (DOMAIN res) \cup {hash} |-> IF h = hash THEN fragment ELSE res[h]]

\* The first half of the body of the loop: the sector and the one after it
\* taken as an objset.
SearchObjSet(objset_data, res, st, ovf) ==
    Bind(ObjSetFromBytesLe(objset_data), LAMBDA objset :
        IF ~objset.some
        THEN {Searched("next", res, st)}
        ELSE {IF o.res = "ok"
              THEN Searched("next",
                            FragmentInsert(res, hash_function(objset_data),
                                           [kind |-> "ObjSetDNode",
                                            contents |-> {}]), o)
              ELSE IF o.res = "err"
              THEN Searched("next", res, o)
              ELSE Searched(o.res, res, o)
              : o \in AnyDereferences(objset.block_pointers, 1, st, ovf)})

\* The second half: the slots of the sector taken as a file or directory
\* dnode.
SearchDNode(dnode_data, res, st, ovf) ==
    Bind(DNodeFromBytesLe(dnode_data), LAMBDA dnode :
        IF ~dnode.some \/ dnode.kind \notin {"PlainFileContents",
                                             "DirectoryContents"}
        THEN {Searched("next", res, st)}
        ELSE UNION {
            IF o.res = "err"
            THEN {Searched("next", res, o)}
            ELSE IF o.res # "ok"
            THEN {Searched(o.res, res, o)}
            ELSE IF dnode.kind = "PlainFileContents"
            THEN {Searched("next",
                           FragmentInsert(res, hash_function(dnode_data),
                                          [kind |-> "FileDNode",
                                           contents |-> {}]), o)}
            ELSE {IF z.res = "some"
                  THEN Searched("next",
                                FragmentInsert(res, hash_function(dnode_data),
                                               [kind |-> "DirectoryDNode",
                                                contents |-> DOMAIN z.result]),
                                z)
                  ELSE IF z.res = "none"
                  THEN Searched("next", res, z)
                  ELSE Searched(z.res, res, z)
                  : z \in dump_zap_contents(dnode, o, ovf)}
            : o \in AnyDereferences(dnode.block_pointers, 1, st, ovf)})

\* The sectors p..q of the data, one after the other.
Sectors(data, p, q) ==
    [i \in 1..(SlotSize * (q - p + 1)) |->
        data[p + ((i - 1) \div SlotSize)][((i - 1) % SlotSize) + 1]]

\* DNode::get_n_slots_from_bytes_le of a whole sector
get_n_slots_from_bytes_le(sector) == sector[13] + 1

\* The body of the loop of search_le_bytes_for_dnodes for sector p of data.
search_sector(data, p, res, st, ovf) ==
    UNION {
        IF a.pc # "next"
        THEN {a}
        ELSE SearchDNode(
                 Sectors(data, p,
                         Min(Len(data),
                             p + get_n_slots_from_bytes_le(data[p]) - 1)),
                 a.res, a, ovf)
        : a \in SearchObjSet(Sectors(data, p, Min(Len(data), p + 1)), res, st,
                             ovf)}

\* One turn of the loop of search_le_bytes_for_dnodes(undelete_data, vdevs);
\* the function returns undelete_res after the last sector.
SearchSector(ovf) ==
    /\ machine = "undelete"
    /\ undelete_pc = "searching"
    /\ undelete_pos < Len(undelete_data)
    /\ \E out \in search_sector(undelete_data, undelete_pos + 1, undelete_res,
                                CallState, ovf) :
          /\ sector_cache' = out.sector_cache
          /\ block_cache' = out.block_cache
          /\ yolo_cache' = out.yolo_cache
          /\ yolo_cache_file' = out.yolo_cache_file
          /\ undelete_res' = out.res
          /\ undelete_pos' = IF out.pc = "next" THEN undelete_pos + 1
                             ELSE undelete_pos
          /\ undelete_pc' = IF out.pc # "next" THEN out.pc
                            ELSE IF undelete_pos + 1 = Len(undelete_data)
                            THEN "returned"
                            ELSE "searching"
    /\ UNCHANGED <<machine, devices, ndevices, nparity, asize, vdev0,
                   yolo_feature, checksum_map, zio_req, zio_ops, undelete_data,
                   leafVars, raidz_req, walkerVars, upperVars, patchVars,
                   tableVars, laterVars>>

(***************************************************************************)
(* The pool the search runs on: a micro ZAP block, a block of file data    *)
(* and a block of zeros on a VdevFile, and the sectors that are searched.  *)
(***************************************************************************)
FileBlock == LeafBlock(4)

MicroBlock == MicroBytes(<<<<7, <<97>>>>, <<9, <<98>>>>>>)

UndeleteBody == MicroBlock \o FileBlock \o Zeros(ZapBlockSize)

MicroPointer == ZapPointer(0, MicroBlock)

FilePointer ==
    BlockPointer(<<DvaFrom(0, ZapBlockSize, FALSE)>>, do_fletcher2(FileBlock),
                 "Fletcher2", "Off", DvaUnit, DvaUnit)

ZerosPointer ==
    BlockPointer(<<DvaFrom(0, ZapBlockSize + DvaUnit, FALSE)>>,
                 do_fletcher2(Zeros(ZapBlockSize)), "Fletcher2", "Off",
                 ZapBlockSize, ZapBlockSize)

\* A pointer whose block was overwritten.
StalePointer ==
    BlockPointer(<<DvaFrom(0, 0, FALSE)>>, GarbageChecksum, "Fletcher2", "Off",
                 DvaUnit, DvaUnit)

\* The slots of a dnode with the header fields given, n block pointer slots
\* of which the first ones hold `bps`, and bonus_len bytes of bonus data.
DNodeBytes(type, shift, levels, sectors, n, bps, bonus_len) ==
    LET total_size == 64 + n * BlockPointerSize + bonus_len
        slots == (total_size + SlotSize - 1) \div SlotSize
    IN  PaddedTo(
            PaddedTo(<<type, shift, levels, n, 0, 0, 0, 0, sectors % 256,
                       sectors \div 256, bonus_len % 256, bonus_len \div 256,
                       slots - 1>>, 64)
                \o [i \in 1..(Len(bps) * BlockPointerSize) |->
                       PointerBytes(bps[((i - 1) \div BlockPointerSize) + 1])
                           [((i - 1) % BlockPointerSize) + 1]],
            slots * SlotSize)

\* What may be found in the data: a file, a file whose block is gone, a
\* directory, directories with no levels, with a block size that is not the
\* size of the block, with indirect blocks of 64 bytes, with no pointer that
\* parses and with a block that is no ZAP, the metadnode of an objset, a
\* file of two slots, and zeros.
Candidates ==
    {DNodeBytes(19, 17, 1, 1, 1, <<FilePointer>>, 0),
     DNodeBytes(19, 17, 1, 1, 1, <<StalePointer>>, 0),
     DNodeBytes(20, 17, 1, ZapBlockSectors, 1, <<MicroPointer>>, 0),
     DNodeBytes(20, 17, 0, ZapBlockSectors, 1, <<MicroPointer>>, 0),
     DNodeBytes(20, 17, 1, 1, 1, <<MicroPointer>>, 0),
     DNodeBytes(20, 6, 2, ZapBlockSectors, 1, <<MicroPointer>>, 0),
     DNodeBytes(20, 17, 1, ZapBlockSectors, 1, <<>>, 0),
     DNodeBytes(20, 17, 1, ZapBlockSectors, 2, <<StalePointer, ZerosPointer>>, 0),
     DNodeBytes(10, 17, 1, 1, 1, <<FilePointer>>, 0),
     DNodeBytes(19, 17, 1, 1, 1, <<FilePointer>>, 400),
     Zeros(SlotSize)}

\* The slots of the candidates, one sector each.
CandidateSectors ==
    UNION {{SubSeq(c, SlotSize * k + 1, SlotSize * (k + 1)) :
               k \in 0..((Len(c) \div SlotSize) - 1)} : c \in Candidates}

\* The number of sectors of the data that is searched.
MaxSectors == 2

InitUndelete ==
    /\ machine = "undelete"
    /\ vdev0 = "file"
    /\ yolo_feature = FALSE
    /\ ndevices = 0 /\ nparity = 0 /\ asize = 0
    /\ checksum_map = <<>>
    /\ sector_cache = <<>>
    /\ block_cache = <<>>
    /\ yolo_cache = LoadYoloCache({})
    /\ yolo_cache_file = {}
    /\ zio_req = ZioNone
    /\ zio_ops = 0
    /\ devices = [d \in {0} |-> LeafOf(UndeleteBody)]
    /\ \E n \in 1..MaxSectors : undelete_data \in [1..n -> CandidateSectors]
    /\ undelete_pos = 0
    /\ undelete_res = <<>>
    /\ undelete_pc = "searching"
    /\ IdleUnless({"pool", "zio", "undelete"})

NextUndelete == \E ovf \in OverflowOutcomes : SearchSector(ovf)

SpecUndelete == InitUndelete /\ [][NextUndelete]_vars

\* The dnode the search takes the sector at undelete_pos for.
CandidateNow ==
    DNodeFromBytesLe(
        Sectors(undelete_data, undelete_pos + 1,
                Min(Len(undelete_data),
                    undelete_pos
                        + get_n_slots_from_bytes_le(
                              undelete_data[undelete_pos + 1]))))

(***************************************************************************)
(* C19 (as stated): whatever bytes the sectors hold, the search either     *)
(* records a fragment for a sector or skips it and goes on to the next     *)
(* sector; it never ends in a panic.                                       *)
(***************************************************************************)
SearchToleratesEveryCandidate ==
    machine = "undelete" => undelete_pc \in {"searching", "returned"}

\* What does hold: the search ends in a panic only at a directory dnode one
\* of whose block pointers dereferences, and then no later sector is
\* looked at.
SearchPanicsOnlyInDirectories ==
    (machine = "undelete" /\ undelete_pc \notin {"searching", "returned"}) =>
        /\ undelete_pc = "panic"
        /\ undelete_pos < Len(undelete_data)
        /\ CandidateNow.some
        /\ CandidateNow.kind = "DirectoryContents"
        /\ CandidateNow.block_pointers # <<>>

(***************************************************************************)
(* lib.rs Uberblock::from_bytes: the byte order of the magic of a slot.    *)
(***************************************************************************)
\* The slot carries the magic 0x00bab10c in big-endian byte order.
BigEndianMagic(slot) == from_be_bytes(slot.magic, 1, 8) = UBERBLOCK_MAGIC

\* The label of the walker has a big-endian slot and main is past the loop
\* that parses the slots.
ParsedBigEndianSlot ==
    /\ machine = "walker"
    /\ walker_pc # "parse"
    /\ \E i \in 1..Len(label0) : BigEndianMagic(label0[i])

\* C21: a slot whose magic is stored in big-endian byte order is told apart
\* from a slot with an invalid magic and stops the parse with an error; a
\* slot with the magic in neither byte order gives no uberblock.
BigEndianUberblockIsRejected ==
    /\ ParsedBigEndianSlot => walker_pc = "panic"
    /\ (machine = "walker" /\ walker_pc # "parse") =>
          \A i \in 1..Len(label0) :
              (~BigEndianMagic(label0[i]) /\ ~ValidMagic(label0[i])) =>
                  \A j \in 1..Len(uberblocks) : uberblocks[j].slot # i

\* What the parse does: a big-endian slot is passed over like one with an
\* invalid magic, the parse goes on and the slot gives no uberblock.
BigEndianUberblockIsSkipped ==
    (machine = "walker" /\ walker_pc \in {"sort", "search", "found"}) =>
        \A i \in 1..Len(label0) :
            ~ValidMagic(label0[i]) =>
                /\ UberblockMagicCase(label0[i]) = "none"
                /\ \A j \in 1..Len(uberblocks) : uberblocks[j].slot # i

(***************************************************************************)
(* yolo_block_recovery.rs: the sweep of find_block_with_fletcher4_checksum *)
(* as the workers of the thread pool run it.  Each worker takes windows    *)
(* of 1 MiB, folds them into an accumulator of its own and then tests the  *)
(* partial matches it collected.                                           *)
(***************************************************************************)
SweepWorkers == {1, 2}

NoLocal == [handle |-> 0, acc |-> {}, off |-> -1, pending |-> {}, cand |-> -1]

MaxSweepCalls == 2

\* A lock that is handed out whether or not a guard is alive.
MutexIgnored(mutex) == TRUE

\* Mutex::lock returns when no guard is alive.
MutexAvailable(mutex) == mutex = 0

\* The partial matches of the window at `off`, computed from the hunk that
\* starts at entry `position` of checksum-map.bin.
HunkMatchesAt(position, off, checksum, psize) ==
    Bind(calculate_convolution_vector_for_block(off, psize, nparity = 1, asize,
                                                ndevices, nparity),
         LAMBDA c :
    Bind(Hunk(position * asize, MiB \div asize + block_size_upper_bound(psize)),
         LAMBDA checksums :
    Bind(calculate_fletcher4_partial_block_checksums(c.cv, checksums),
         LAMBDA res :
             {off + (ind - 1) * asize :
                 ind \in {i \in DOMAIN res :
                             res[i] % U32Mod = checksum[1] % U32Mod}})))

\* find_any has an answer: the consumers are full and the workers stop.
SweepFull == sweep_found # {}

\* Lines 105-120: the call finds no answer in YOLO_CACHE, takes the RAIDZ
\* vdev and puts the vdevs behind a mutex.
SweepCall(checksum, psize) ==
    /\ machine = "sweep"
    /\ sweep_req.res # "sweeping"
    /\ sweep_req.calls < MaxSweepCalls
    /\ LET key == <<checksum, psize>>
       IN  IF key \in DOMAIN yolo_cache
           THEN /\ sweep_req' = [checksum |-> checksum, psize |-> psize,
                                 res |-> "cached", answer |-> yolo_cache[key],
                                 calls |-> sweep_req.calls + 1]
                /\ UNCHANGED <<sweep_pc, sweep_local, sweep_files, sweep_todo,
                               sweep_found>>
           ELSE /\ sweep_req' = [checksum |-> checksum, psize |-> psize,
                                 res |-> "sweeping", answer |-> NoOffset,
                                 calls |-> sweep_req.calls + 1]
                /\ sweep_pc' = [w \in SweepWorkers |-> "idle"]
                /\ sweep_local' = [w \in SweepWorkers |-> NoLocal]
                /\ sweep_files' = <<>>
                /\ sweep_todo' = SweepOffsets
                /\ sweep_found' = {}
    /\ UNCHANGED <<machine, poolVars, zioVars, sweep_mutex, sweepRest>>

\* fold, line 147: a worker starts a part of the range; the identity closure
\* opens checksum-map.bin and makes an empty vector.
SweepSplit(w) ==
    /\ machine = "sweep"
    /\ sweep_req.res = "sweeping"
    /\ sweep_pc[w] = "idle"
    /\ sweep_todo # {}
    /\ ~SweepFull
    /\ sweep_files' = Append(sweep_files, 0)
    /\ sweep_local' = [sweep_local EXCEPT ![w] =
                          [NoLocal EXCEPT !.handle = Len(sweep_files) + 1]]
    /\ sweep_pc' = [sweep_pc EXCEPT ![w] = "fold"]
    /\ UNCHANGED <<machine, poolVars, zioVars, sweep_req, sweep_mutex,
                   sweep_todo, sweep_found, sweepRest>>

\* Lines 148-165: the worker takes the window at `off` and seeks its handle
\* to the entry of the first sector of the window.
SweepSeek(w, off) ==
    /\ machine = "sweep"
    /\ sweep_pc[w] = "fold"
    /\ off \in sweep_todo
    /\ ~SweepFull
    /\ sweep_todo' = sweep_todo \ {off}
    /\ sweep_files' = [sweep_files EXCEPT ![sweep_local[w].handle] = off \div asize]
    /\ sweep_local' = [sweep_local EXCEPT ![w].off = off]
    /\ sweep_pc' = [sweep_pc EXCEPT ![w] = "seek"]
    /\ UNCHANGED <<machine, poolVars, zioVars, sweep_req, sweep_mutex,
                   sweep_found, sweepRest>>

\* Lines 166-197: the hunk is read at the position of the handle, the
\* convolution is computed and the partial matches are pushed.
SweepRead(w) ==
    /\ machine = "sweep"
    /\ sweep_pc[w] = "seek"
    /\ LET handle == sweep_local[w].handle
           count == MiB \div asize + block_size_upper_bound(sweep_req.psize)
       IN  /\ sweep_local' =
                  [sweep_local EXCEPT ![w].acc =
                      @ \cup HunkMatchesAt(sweep_files[handle], sweep_local[w].off,
                                           sweep_req.checksum, sweep_req.psize)]
           /\ sweep_files' = [sweep_files EXCEPT ![handle] =
                                 Min(@ + count, Len(checksum_map))]
    /\ sweep_pc' = [sweep_pc EXCEPT ![w] = "fold"]
    /\ UNCHANGED <<machine, poolVars, zioVars, sweep_req, sweep_mutex,
                   sweep_todo, sweep_found, sweepRest>>

\* Lines 199-201: the part is folded; its vector goes to flatten and find_any.
SweepFolded(w) ==
    /\ machine = "sweep"
    /\ sweep_pc[w] = "fold"
    /\ sweep_local[w].off >= 0
    /\ sweep_local' = [sweep_local EXCEPT ![w].pending = sweep_local[w].acc]
    /\ sweep_pc' = [sweep_pc EXCEPT ![w] = "verify"]
    /\ UNCHANGED <<machine, poolVars, zioVars, sweep_req, sweep_files,
                   sweep_mutex, sweep_todo, sweep_found, sweepRest>>

\* Line 205: vdevs.lock().unwrap() for the next partial match of the part.
SweepLock(w) ==
    /\ machine = "sweep"
    /\ sweep_pc[w] = "verify"
    /\ sweep_local[w].pending # {}
    /\ ~SweepFull
    /\ MutexAvailable(sweep_mutex)
    /\ sweep_mutex' = w
    /\ sweep_local' =
           [sweep_local EXCEPT ![w].cand =
               CHOOSE m \in sweep_local[w].pending :
                   \A n \in sweep_local[w].pending : m <= n]
    /\ sweep_pc' = [sweep_pc EXCEPT ![w] = "locked"]
    /\ UNCHANGED <<machine, poolVars, zioVars, sweep_req, sweep_files,
                   sweep_todo, sweep_found, sweepRest>>

\* Lines 204-207: dva.dereference through the guard, the guard dropped at
\* the end of the statement, and the comparison of the full checksum.
SweepDereference(w) ==
    /\ machine = "sweep"
    /\ sweep_pc[w] = "locked"
    /\ LET v == YoloVerify(sector_cache, sweep_req.checksum, sweep_req.psize,
                           sweep_local[w].cand)
       IN  /\ sector_cache' = v.cache
           /\ sweep_found' = IF v.ok THEN sweep_found \cup {sweep_local[w].cand}
                             ELSE sweep_found
    /\ sweep_mutex' = IF sweep_mutex = w THEN 0 ELSE sweep_mutex
    /\ sweep_local' = [sweep_local EXCEPT ![w].pending = @ \ {sweep_local[w].cand}]
    /\ sweep_pc' = [sweep_pc EXCEPT ![w] = "verify"]
    /\ UNCHANGED <<machine, devices, ndevices, nparity, asize, block_cache,
                   zioVars, sweep_req, sweep_files, sweep_todo, sweepRest>>

\* The partial matches of the part are all tested: the worker is free for
\* another part.
SweepVerified(w) ==
    /\ machine = "sweep"
    /\ sweep_pc[w] = "verify"
    /\ sweep_local[w].pending = {}
    /\ sweep_pc' = [sweep_pc EXCEPT ![w] = "idle"]
    /\ sweep_local' = [sweep_local EXCEPT ![w] = NoLocal]
    /\ UNCHANGED <<machine, poolVars, zioVars, sweep_req, sweep_files,
                   sweep_mutex, sweep_todo, sweep_found, sweepRest>>

\* Nothing is left for the worker: the range is handed out, or find_any has
\* its answer and the worker drops what it holds.
SweepEnd(w) ==
    /\ machine = "sweep"
    /\ sweep_req.res = "sweeping"
    /\ \/ sweep_pc[w] = "idle" /\ sweep_todo = {}
       \/ sweep_pc[w] \in {"idle", "fold", "verify"} /\ SweepFull
    /\ sweep_pc' = [sweep_pc EXCEPT ![w] = "done"]
    /\ sweep_local' = [sweep_local EXCEPT ![w] = NoLocal]
    /\ UNCHANGED <<machine, poolVars, zioVars, sweep_req, sweep_files,
                   sweep_mutex, sweep_todo, sweep_found, sweepRest>>

\* Lines 211-260: the workers are joined, the answer is put in YOLO_CACHE
\* and the cache is saved.
SweepJoin ==
    /\ machine = "sweep"
    /\ sweep_req.res = "sweeping"
    /\ \A w \in SweepWorkers : sweep_pc[w] = "done"
    /\ \E a \in IF sweep_found = {} THEN {NoOffset}
                ELSE {SomeOffset(off) : off \in sweep_found} :
          LET key == <<sweep_req.checksum, sweep_req.psize>>
          IN  /\ sweep_req' = [sweep_req EXCEPT !.res = "returned", !.answer = a]
              /\ yolo_cache' = YoloInsert(yolo_cache, key, a)
              /\ yolo_cache_file' = save_yolo_cache(YoloInsert(yolo_cache, key, a))
    /\ UNCHANGED <<machine, poolVars, vdev0, yolo_feature, checksum_map,
                   zio_req, zio_ops, sweep_pc, sweep_local, sweep_files,
                   sweep_mutex, sweep_todo, sweep_found, sweepRest>>

\* The checksums the sweep is asked for.
SweepChecksums ==
    {ChecksumAt(off, psize, "Fletcher4") :
        off \in {DvaUnit, 5 * DvaUnit}, psize \in {DvaUnit}}

InitSweep ==
    /\ machine = "sweep"
    /\ vdev0 = "raidz"
    /\ yolo_feature = TRUE
    /\ ndevices = 4
    /\ nparity = 1
    /\ asize = DvaUnit
    /\ devices = PoolFromLinear(LinearBytes, ndevices, asize)
    /\ checksum_map = ChecksumTable
    /\ sector_cache = <<>>
    /\ block_cache = <<>>
    /\ yolo_cache = LoadYoloCache({})
    /\ yolo_cache_file = {}
    /\ zio_req = ZioNone
    /\ zio_ops = 0
    /\ sweep_req = [checksum |-> <<>>, psize |-> 0, res |-> "none",
                    answer |-> NoOffset, calls |-> 0]
    /\ sweep_pc = [w \in SweepWorkers |-> "done"]
    /\ sweep_local = [w \in SweepWorkers |-> NoLocal]
    /\ sweep_files = <<>>
    /\ sweep_mutex = 0
    /\ sweep_todo = {}
    /\ sweep_found = {}
    /\ IdleUnless({"pool", "zio", "sweep"})

NextSweep ==
    \/ \E c \in SweepChecksums, psize \in {DvaUnit} : SweepCall(c, psize)
    \/ \E w \in SweepWorkers : SweepSplit(w)
    \/ \E w \in SweepWorkers, off \in SweepOffsets : SweepSeek(w, off)
    \/ \E w \in SweepWorkers : SweepRead(w)
    \/ \E w \in SweepWorkers : SweepFolded(w)
    \/ \E w \in SweepWorkers : SweepLock(w)
    \/ \E w \in SweepWorkers : SweepDereference(w)
    \/ \E w \in SweepWorkers : SweepVerified(w)
    \/ \E w \in SweepWorkers : SweepEnd(w)
    \/ SweepJoin

SpecSweep == InitSweep /\ [][NextSweep]_vars

\* The workers that are inside a dereference through the vdevs.
SweepInsideVdev == {w \in SweepWorkers : sweep_pc[w] = "locked"}

\* The workers that hold an accumulator of the fold.
SweepFolding == {w \in SweepWorkers : sweep_pc[w] \in {"fold", "seek"}}

\* At most one worker is inside a dereference, and it holds the lock; no two
\* workers fold with the same handle, and the handle of a worker that has
\* sought stays where the worker put it until the worker reads.
SweepWorkersApart ==
    machine = "sweep" =>
        /\ Cardinality(SweepInsideVdev) <= 1
        /\ \A w \in SweepInsideVdev : sweep_mutex = w
        /\ \A v, w \in SweepFolding :
              v # w => sweep_local[v].handle # sweep_local[w].handle
        /\ \A w \in SweepWorkers :
              sweep_pc[w] = "seek" =>
                  sweep_files[sweep_local[w].handle] = sweep_local[w].off \div asize

\* A step that changes the sector cache or the block cache is the
\* dereference of the worker that holds the lock; a step that moves a handle
\* or grows an accumulator changes those of one worker only.
SweepStepIsPrivate ==
    machine = "sweep" /\ sweep_req.res = "sweeping" /\ sweep_req'.res = "sweeping" =>
        /\ (sector_cache' # sector_cache \/ block_cache' # block_cache) =>
              \E w \in SweepWorkers :
                  /\ sweep_mutex = w
                  /\ sweep_pc[w] = "locked"
                  /\ \A v \in SweepWorkers \ {w} : sweep_pc[v] # "locked"
        /\ Cardinality({w \in SweepWorkers : sweep_local'[w] # sweep_local[w]}) <= 1
        /\ \A h \in 1..Len(sweep_files) :
              sweep_files'[h] # sweep_files[h] =>
                  \E w \in SweepWorkers :
                      /\ sweep_local[w].handle = h
                      /\ sweep_pc'[w] # sweep_pc[w]
                      /\ \A v \in SweepWorkers \ {w} :
                            sweep_local'[v] = sweep_local[v]

\* C22: in every interleaving of the workers of the sweep at most one worker
\* at a time is inside a read or a dereference through the RAIDZ vdev, so
\* that only the holder of the lock touches the sector and block caches, and
\* the fold of the windows shares nothing between the workers: each has its
\* own handle of checksum-map.bin and its own accumulator.
SweepWorkersAreIsolated == []SweepWorkersApart /\ [][SweepStepIsPrivate]_vars

\* One worker is inside the dereference while the other waits for the lock
\* with a partial match of its own, and the dereference has filled the cache.
SweepContended ==
    /\ machine = "sweep"
    /\ \E v, w \in SweepWorkers :
          /\ sweep_pc[v] = "locked"
          /\ sweep_pc[w] = "verify"
          /\ sweep_local[w].pending # {}
    /\ sector_cache # <<>>

(***************************************************************************)
(* zio.rs NormalBlockPointer::dereference: the length of what is returned. *)
(***************************************************************************)
\* C23: every successful dereference returns exactly parse_logical_size()
\* bytes of its pointer, whether the bytes come from a DVA, from the YOLO
\* fallback or from the block cache.
DereferenceReturnsLogicalSize ==
    (Dereferenced /\ zio_req.res = "ok") =>
        Len(zio_req.data) = parse_logical_size(zio_req.bp)

\* What the code keeps: the length is the logical size on the two paths that
\* read the block, and a hit of the block cache returns the entry kept under
\* the checksum and its kind, whatever its length.
DereferenceReturnsLogicalSizeWhenRead ==
    (Dereferenced /\ zio_req.res = "ok") =>
        IF zio_req.path = "cache"
        THEN /\ BlockCacheHas(block_cache, BlockCacheKey(zio_req))
             /\ zio_req.data = block_cache[LruIndex(block_cache, BlockCacheKey(zio_req))].val
        ELSE Len(zio_req.data) = parse_logical_size(zio_req.bp)

(***************************************************************************)
(* dmu.rs: read_block on a dnode parsed from its bytes on disk, where some *)
(* of the block pointer slots of the header hold no pointer.               *)
(***************************************************************************)
\* The blocks of the file, one after the other on a VdevFile.
SlotsBody == LeafBlock(1) \o LeafBlock(2) \o LeafBlock(3)

\* The pointer a writer stored for block j of the file.
SlotPointer(j) ==
    BlockPointer(<<DvaFrom(0, (j - 1) * DvaUnit, FALSE)>>,
                 do_fletcher2(LeafBlock(j)), "Fletcher2", "Off", DvaUnit, DvaUnit)

\* What a slot of the header may hold: a hole (zeros), the pointer of one of
\* the blocks, or a pointer whose block was overwritten.
SlotChoices == {<<>>, SlotPointer(1), SlotPointer(2), SlotPointer(3), StalePointer}

\* The bytes of a dnode of one level with the slots given.
DNodeWithSlots(slots, max_id) ==
    PaddedTo(
        PaddedTo(<<19, 17, 1, Len(slots), 0, 0, 0, 0, 1, 0, 0, 0, 0, 0, 0, 0>>
                     \o u64_to_le_bytes(max_id), 64)
            \o [i \in 1..(Len(slots) * BlockPointerSize) |->
                   LET slot == slots[((i - 1) \div BlockPointerSize) + 1]
                   IN  IF slot = <<>>
                       THEN 0
                       ELSE PointerBytes(slot)[((i - 1) % BlockPointerSize) + 1]],
        SlotSize)

\* The pointer in slot number j (from 0) of the header, as it parses.
OnDiskSlot(bytes, j) ==
    BlockPointerFromBytesLe(SubSeq(bytes, 65 + BlockPointerSize * j,
                                   64 + BlockPointerSize * (j + 1)))

\* DNodeBase::from_bytes_le on the bytes, then read_block(block_id).
ReadBlockOfSlots(block_id, ovf) ==
    /\ machine = "slots"
    /\ LET d == DNodeBaseFromBytesLe(file_list[1].bytes)
       IN  IF ~d.some
           THEN /\ dnode_req' = [DNodeNone EXCEPT !.op = "from_bytes_le",
                                    !.block_id = block_id, !.res = "none"]
                /\ UNCHANGED <<sector_cache, block_cache, yolo_cache,
                               yolo_cache_file>>
           ELSE \E out \in read_block(d, block_id, CallState, ovf) :
                   /\ sector_cache' = out.sector_cache
                   /\ block_cache' = out.block_cache
                   /\ yolo_cache' = out.yolo_cache
                   /\ yolo_cache_file' = out.yolo_cache_file
                   /\ dnode_req' = [DNodeNone EXCEPT !.op = "read_block",
                                       !.block_id = block_id,
                                       !.res = out.res, !.data = out.data]
    /\ UNCHANGED <<machine, devices, ndevices, nparity, asize, vdev0,
                   yolo_feature, checksum_map, zio_req, zio_ops, file_list,
                   dnodeOthers>>

\* The greatest block id of the dnodes.
MaxSlotBlockId == 2

InitSlots ==
    /\ machine = "slots"
    /\ vdev0 = "file"
    /\ yolo_feature = FALSE
    /\ ndevices = 0 /\ nparity = 0 /\ asize = 0
    /\ checksum_map = <<>>
    /\ sector_cache = <<>>
    /\ block_cache = <<>>
    /\ yolo_cache = LoadYoloCache({})
    /\ yolo_cache_file = {}
    /\ zio_req = ZioNone
    /\ zio_ops = 0
    /\ devices = [d \in {0} |-> LeafOf(SlotsBody)]
    /\ \E k \in 1..3 : \E slots \in [1..k -> SlotChoices] :
          file_list = <<[kind |-> "OnDisk",
                         bytes |-> DNodeWithSlots(slots, MaxSlotBlockId)]>>
    /\ dnode_req = DNodeNone
    /\ IdleUnless({"pool", "zio", "dnode"})

NextSlots ==
    \E block_id \in 0..(MaxSlotBlockId + 1), ovf \in OverflowOutcomes :
        ReadBlockOfSlots(block_id, ovf)

SpecSlots == InitSlots /\ [][NextSlots]_vars

\* read_block was called on the parsed dnode for a block the dnode has.
ReadBlockCalled ==
    /\ machine = "slots"
    /\ dnode_req.op = "read_block"
    /\ dnode_req.block_id <= MaxSlotBlockId

\* What dereferencing the pointer gives when it succeeds.
TargetsOf(bp) ==
    {o.data : o \in {p \in PointerDereference(bp, CallState, "panic") : p.res = "ok"}}

\* C24: read_block returns the contents of no other block than the one
\* asked for: with k pointer slots declared in the header, the pointer used
\* for block i is the one in slot (i mod k) of the header; a call for a block
\* whose slot does not parse fails, and a hole in an earlier slot does not
\* send the call to the target of another slot.
ReadBlockUsesOnDiskSlot ==
    ReadBlockCalled =>
        LET bytes == file_list[1].bytes
            slot == OnDiskSlot(bytes, dnode_req.block_id % bytes[4])
        IN  dnode_req.res = "ok" =>
                /\ slot.some
                /\ dnode_req.data \in TargetsOf(slot)

\* What the code does: the pointer used is the one at index
\* (i mod block_pointers.len()) of the vector of the slots that parsed.
ReadBlockUsesParsedVector ==
    ReadBlockCalled =>
        LET d == DNodeBaseFromBytesLe(file_list[1].bytes)
            n == Len(d.block_pointers)
        IN  IF n = 0
            THEN dnode_req.res = "panic"
            ELSE LET bp == d.block_pointers[(dnode_req.block_id % n) + 1]
                 IN  IF TargetsOf(bp) = {}
                     THEN dnode_req.res = "err"
                     ELSE dnode_req.res = "ok" /\ dnode_req.data \in TargetsOf(bp)

(***************************************************************************)
(* zio.rs dereference_raw: the number of data sectors that are collected   *)
(* and the assertion on the length of the result.                          *)
(***************************************************************************)
\* A DVA was dereferenced on the RAIDZ vdev and the read of the vdev
\* succeeded.
DvaReadSucceeded ==
    /\ machine = "dva"
    /\ zio_req.op = "dva_dereference"
    /\ zio_req.res # "err"

\* C25: in dereference_raw on a RAIDZ vdev of N devices and P parity columns,
\* for every offset and size for which the read of the vdev succeeds, the
\* data columns of the sectors read hold exactly ceil(size / A) sectors, so
\* that the assertion res_transposed.len() == size holds after the cut, with
\* the columns 0 and 1 exchanged or not.
DvaCollectsDataSectors ==
    DvaReadSucceeded =>
        /\ Len(res_transposed(<<>>, zio_req.bp, zio_req.psize).data)
               = CeilDiv(zio_req.psize, asize) * asize
        /\ zio_req.res = "ok"
        /\ Len(zio_req.data) = zio_req.psize

\* A size that ends inside a sector of a stripe that is not full was read
\* at an odd MiB of a vdev with one parity column.
DvaCollectedPartialStripeSwapped ==
    /\ DvaReadSucceeded
    /\ nparity = 1
    /\ (parse_offset(zio_req.bp) \div MiB) % 2 = 1
    /\ zio_req.psize % asize # 0
    /\ CeilDiv(zio_req.psize, asize) % (ndevices - nparity) # 0
    /\ zio_req.res = "ok"

(***************************************************************************)
(* bin/undelete.rs: build_graph.  A fragment is kept by its kind and its   *)
(* children; what the dereferences and the searches of is_child_of find on *)
(* the vdevs is the relation graph_pool, any relation on the keys.         *)
(***************************************************************************)
FragmentKinds == {"FileDNode", "DirectoryDNode", "ObjSetDNode", "IndirectBlock"}

\* The arms of the match of is_child_of that read the vdevs, as pairs of the
\* kind of the parent and the kind of the fragment.
ReadingArms ==
    {<<"IndirectBlock", "IndirectBlock">>, <<"IndirectBlock", "FileDNode">>,
     <<"IndirectBlock", "DirectoryDNode">>, <<"ObjSetDNode", "IndirectBlock">>,
     <<"DirectoryDNode", "IndirectBlock">>, <<"FileDNode", "IndirectBlock">>}

\* The match of is_child_of alone, without the look into the children of the
\* parent that comes before it.
is_child_of_by_match(nodes, pool, self_hash, parent_hash) ==
    /\ <<nodes[parent_hash].kind, nodes[self_hash].kind>> \in ReadingArms
    /\ <<parent_hash, self_hash>> \in pool

\* Fragment::is_child_of when it returns: true for a hash that is among the
\* children of the parent already, otherwise what the arm of the match
\* finds; the arms that read nothing return false.
is_child_of(nodes, pool, self_hash, parent_hash) ==
    \/ self_hash \in nodes[parent_hash].children
    \/ /\ <<nodes[parent_hash].kind, nodes[self_hash].kind>> \in ReadingArms
       /\ <<parent_hash, self_hash>> \in pool

\* Lines 354-358: the keys are collected and every key starts as a root.
BuildGraphStart ==
    /\ machine = "graph"
    /\ graph_pc = "called"
    /\ graph_hashes' \in {s \in [1..Cardinality(DOMAIN graph_nodes) -> DOMAIN graph_nodes] :
                            \A a, b \in DOMAIN s : a # b => s[a] # s[b]}
    /\ graph_roots' = DOMAIN graph_nodes
    /\ graph_i' = 0
    /\ graph_j' = 0
    /\ graph_pc' = "loop"
    /\ UNCHANGED <<machine, poolVars, zioVars, graph_nodes, graph_pool, graphRest>>

\* Lines 370-380: one turn of the inner loop.  A dereference or a search of
\* an arm that reads the vdevs may panic instead of returning.
BuildGraphStep(panics) ==
    /\ machine = "graph"
    /\ graph_pc = "loop"
    /\ graph_i < Len(graph_hashes)
    /\ LET hash1 == graph_hashes[graph_i + 1]
           hash2 == graph_hashes[graph_j + 1]
           reads == /\ hash2 \notin graph_nodes[hash1].children
                    /\ <<graph_nodes[hash1].kind, graph_nodes[hash2].kind>>
                           \in ReadingArms
       IN  IF graph_i # graph_j /\ panics /\ reads
           THEN /\ graph_pc' = "panic"
                /\ UNCHANGED <<graph_nodes, graph_roots, graph_i, graph_j>>
           ELSE /\ ~panics
                /\ IF graph_i # graph_j
                      /\ is_child_of(graph_nodes, graph_pool, hash2, hash1)
                   THEN /\ graph_nodes' =
                               [graph_nodes EXCEPT ![hash1].children = @ \cup {hash2}]
                        /\ graph_roots' = graph_roots \ {hash2}
                   ELSE UNCHANGED <<graph_nodes, graph_roots>>
                /\ IF graph_j + 1 < Len(graph_hashes)
                   THEN /\ graph_j' = graph_j + 1
                        /\ UNCHANGED graph_i
                   ELSE /\ graph_j' = 0
                        /\ graph_i' = graph_i + 1
                /\ UNCHANGED graph_pc
    /\ UNCHANGED <<machine, poolVars, zioVars, graph_pool, graph_hashes, graphRest>>

\* Line 383: the roots are returned.
BuildGraphReturn ==
    /\ machine = "graph"
    /\ graph_pc = "loop"
    /\ graph_i >= Len(graph_hashes)
    /\ graph_pc' = "returned"
    /\ UNCHANGED <<machine, poolVars, zioVars, graph_nodes, graph_pool,
                   graph_hashes, graph_roots, graph_i, graph_j, graphRest>>

\* The hashes of the fragments of the map.
MaxFragments == 3

\* A hash that is the key of no fragment of the map.
ForeignHash == MaxFragments + 1

\* The children a fragment may have when build_graph is called: none, the
\* next key of the map, or a hash that is no key of the map.
LoadedChildren(h, n) == {{}, {(h % n) + 1}, {ForeignHash}}

\* The greatest number of pairs the vdevs answer yes for.
MaxPoolPairs == 2

InitGraph ==
    /\ machine = "graph"
    /\ \E n \in 2..MaxFragments :
          /\ graph_nodes \in
                 {f \in [1..n -> [kind : FragmentKinds,
                                  children : SUBSET (1..ForeignHash)]] :
                     \A h \in 1..n : f[h].children \in LoadedChildren(h, n)}
          /\ graph_pool \in
                 {p \in SUBSET {<<g, h>> \in (1..n) \X (1..n) : g # h} :
                     Cardinality(p) <= MaxPoolPairs}
    /\ graph_hashes = <<>>
    /\ graph_roots = {}
    /\ graph_i = 0
    /\ graph_j = 0
    /\ graph_pc = "called"
    /\ IdleUnless({"graph"})

NextGraph ==
    \/ BuildGraphStart
    \/ \E panics \in BOOLEAN : BuildGraphStep(panics)
    \/ BuildGraphReturn

SpecGraph == InitGraph /\ [][NextGraph]_vars

\* After the return a key is a root iff no other fragment of the map has it
\* among its children.
RootsHaveNoParent ==
    (machine = "graph" /\ graph_pc = "returned") =>
        \A h \in DOMAIN graph_nodes :
            h \in graph_roots <=>
                ~\E g \in DOMAIN graph_nodes \ {h} : h \in graph_nodes[g].children

\* What a step adds to the children of a fragment is a key of the map and
\* not the hash of an ObjSet fragment.
AddsKeysButNoObjSet ==
    machine = "graph" /\ graph_pc = "loop" =>
        \A g \in DOMAIN graph_nodes :
            \A h \in graph_nodes'[g].children \ graph_nodes[g].children :
                /\ h \in DOMAIN graph_nodes
                /\ graph_nodes[h].kind # "ObjSetDNode"

\* C26: after build_graph returns, on any fragment map, a hash of the map is
\* in the root set it returns iff no other fragment of the map has the hash
\* among its children; every hash build_graph adds to the children of a
\* fragment is a key of the map, and build_graph adds no ObjSet fragment to
\* the children of a fragment.
BuildGraphRootsAndChildren == []RootsHaveNoParent /\ [][AddsKeysButNoObjSet]_vars

\* build_graph returned on a map where an indirect block got a file as a
\* new child, a fragment had a child when it was called, and an ObjSet is
\* among the roots.
BuildGraphReturned ==
    /\ machine = "graph"
    /\ graph_pc = "returned"
    /\ \E g, h, o \in DOMAIN graph_nodes :
          /\ graph_nodes[g].kind = "IndirectBlock"
          /\ graph_nodes[h].kind = "FileDNode"
          /\ <<g, h>> \in graph_pool
          /\ graph_nodes[g].children = {h}
          /\ graph_nodes[o].kind = "ObjSetDNode"
          /\ o \in graph_roots
          /\ h \in graph_nodes[o].children

(***************************************************************************)
(* lib.rs VdevRaidz: read_sector, write_sector, read and write through the *)
(* sector cache, next to what the leaves hold.                             *)
(***************************************************************************)
\* device_sector_index * asize does not fit a u64.
SectorOverflows(sector_index) == (sector_index \div ndevices) * asize >= U64Mod

\* Vdev::write of leaf `d` (VdevFile::write): the leaves after the call.
DeviceWrite(devs, d, offset_in_bytes, data) ==
    IF d \notin DOMAIN devs
    THEN [ok |-> FALSE, devices |-> devs]
    ELSE LET t == LeafTranslate(devs[d].file_size, offset_in_bytes, Len(data),
                                "wrap")
         IN  IF t.res # "ok"
             THEN [ok |-> FALSE, devices |-> devs]
             ELSE [ok |-> TRUE,
                   devices |-> [devs EXCEPT ![d].device =
                                   write_raw(devs[d].device, t.raw, data)]]

\* VdevRaidz::write_sector: the leaf is written first and the cache is
\* updated when the write succeeded.
write_sector(cache, devs, sector_index, data) ==
    LET device_sector_index == sector_index \div ndevices
        device_number == sector_index % ndevices
    IN  IF Len(data) # asize
        THEN [res |-> "panic", cache |-> cache, devices |-> devs]
        ELSE Bind(DeviceWrite(devs, device_number,
                              (device_sector_index * asize) % U64Mod, data),
                  LAMBDA w :
                      IF ~w.ok
                      THEN [res |-> "err", cache |-> cache, devices |-> devs]
                      ELSE [res |-> "ok",
                            cache |-> LruPut(cache, sector_index, data,
                                             SectorCacheCap),
                            devices |-> w.devices])

\* `sector` with the bytes of `data` from `from` on laid over it at `at`.
Overwritten(sector, at, data, from) ==
    [x \in 1..Len(sector) |->
        IF x > at /\ from + (x - at) <= Len(data)
        THEN data[from + (x - at)]
        ELSE sector[x]]

\* The loop of VdevRaidz::write over the full sectors i..full after the
\* first one.
RECURSIVE WriteFullSectors(_, _, _, _, _, _)
WriteFullSectors(st, first_sector_index, data, bytes_written, i, full) ==
    IF i > full \/ st.res # "ok"
    THEN st
    ELSE WriteFullSectors(
             write_sector(st.cache, st.devices, first_sector_index + i,
                          SubSeq(data, bytes_written + 1, bytes_written + asize)),
             first_sector_index, data, bytes_written + asize, i + 1, full)

\* A sector is read for a write of a part of it, and written back.  No
\* write of the same call has touched this sector before.
WritePartOfSector(st, sector_index, at, data, from) ==
    Bind(read_sector(st.cache, sector_index), LAMBDA r :
        IF ~r.ok
        THEN [res |-> "err", cache |-> r.cache, devices |-> st.devices]
        ELSE write_sector(r.cache, st.devices, sector_index,
                          Overwritten(r.data, at, data, from)))

\* VdevRaidz::write: the outcome, the cache and the leaves after the call.
raidz_write(cache, devs, offset_in_bytes, data) ==
    LET st0 == [res |-> "ok", cache |-> cache, devices |-> devs]
        first_sector_index == offset_in_bytes \div asize
        first_sector_offset == offset_in_bytes % asize
        whole == first_sector_offset = 0 /\ Len(data) >= asize
        bytes_written == IF whole THEN asize
                         ELSE Min(asize - first_sector_offset, Len(data))
        size_remaining == Len(data) - bytes_written
        full_sectors_to_write == size_remaining \div asize
    IN  IF Len(data) = 0
        THEN st0
        ELSE Bind(IF whole
                  THEN write_sector(cache, devs, first_sector_index,
                                    SubSeq(data, 1, asize))
                  ELSE WritePartOfSector(st0, first_sector_index,
                                         first_sector_offset, data, 0),
                  LAMBDA st1 :
             IF st1.res # "ok" \/ bytes_written >= Len(data)
             THEN st1
             ELSE Bind(WriteFullSectors(st1, first_sector_index, data,
                                        bytes_written, 1, full_sectors_to_write),
                       LAMBDA st2 :
                  IF st2.res # "ok" \/ size_remaining % asize = 0
                  THEN st2
                  ELSE WritePartOfSector(
                           st2, first_sector_index + full_sectors_to_write + 1, 0,
                           data, bytes_written + full_sectors_to_write * asize)))

\* The number of calls made through the vdev.
MaxCacheOps == 3

CacheRequest(op, offset, amount, res, data) ==
    [op |-> op, offset |-> offset, amount |-> amount, res |-> res,
     raw |-> raidz_req.raw + 1, data |-> data]

\* vdev.read_sector(sector_index)
CacheReadSector(sector_index, ovf) ==
    /\ machine = "cache"
    /\ raidz_req.raw < MaxCacheOps
    /\ IF SectorOverflows(sector_index) /\ ovf = "panic"
       THEN /\ raidz_req' = CacheRequest("read_sector", sector_index, asize,
                                         "panic", <<>>)
            /\ UNCHANGED sector_cache
       ELSE LET r == read_sector(sector_cache, sector_index)
            IN  /\ sector_cache' = r.cache
                /\ raidz_req' = CacheRequest("read_sector", sector_index, asize,
                                             IF r.ok THEN "ok" ELSE "err", r.data)
    /\ UNCHANGED <<machine, devices, ndevices, nparity, asize, block_cache,
                   raidzOthers>>

\* vdev.write_sector(sector_index, data)
CacheWriteSector(sector_index, data, ovf) ==
    /\ machine = "cache"
    /\ raidz_req.raw < MaxCacheOps
    /\ IF SectorOverflows(sector_index) /\ ovf = "panic"
       THEN /\ raidz_req' = CacheRequest("write_sector", sector_index, Len(data),
                                         "panic", data)
            /\ UNCHANGED <<sector_cache, devices>>
       ELSE LET w == write_sector(sector_cache, devices, sector_index, data)
            IN  /\ sector_cache' = w.cache
                /\ devices' = w.devices
                /\ raidz_req' = CacheRequest("write_sector", sector_index,
                                             Len(data), w.res, data)
    /\ UNCHANGED <<machine, ndevices, nparity, asize, block_cache, raidzOthers>>

\* vdev.read(offset_in_bytes, amount_in_bytes)
CacheRead(offset_in_bytes, amount_in_bytes) ==
    /\ machine = "cache"
    /\ raidz_req.raw < MaxCacheOps
    /\ LET r == RaidzReadFrom(sector_cache, offset_in_bytes, amount_in_bytes)
       IN  /\ sector_cache' = r.cache
           /\ raidz_req' = CacheRequest("read", offset_in_bytes, amount_in_bytes,
                                        IF r.ok THEN "ok" ELSE "err", r.data)
    /\ UNCHANGED <<machine, devices, ndevices, nparity, asize, block_cache,
                   raidzOthers>>

\* vdev.write(offset_in_bytes, data)
CacheWrite(offset_in_bytes, data) ==
    /\ machine = "cache"
    /\ raidz_req.raw < MaxCacheOps
    /\ LET w == raidz_write(sector_cache, devices, offset_in_bytes, data)
       IN  /\ sector_cache' = w.cache
           /\ devices' = w.devices
           /\ raidz_req' = CacheRequest("write", offset_in_bytes, Len(data),
                                        w.res, data)
    /\ UNCHANGED <<machine, ndevices, nparity, asize, block_cache, raidzOthers>>

\* The first sector index whose device offset is 2^64 bytes and more.
FirstOverflowingSector == ndevices * (U64Mod \div asize)

\* The sectors the calls name: the first ones of the vdev, the one after
\* its last, and two whose device offset does not fit a u64.
CacheSectors ==
    {0, 1, ndevices, RaidzSize \div asize,
     FirstOverflowingSector, FirstOverflowingSector + 1}

\* The bytes that are written: every byte of a call is the same.
CacheData == {[i \in 1..n |-> v] : n \in {1, asize, asize + 1}, v \in {200, 201}}

CacheOffsets == {0, asize - 1, asize, RaidzSize - 1}

InitCache ==
    /\ machine = "cache"
    /\ ndevices = 4
    /\ nparity = 1
    /\ asize = 16
    /\ devices = IdentityPool(ndevices)
    /\ sector_cache = <<>>
    /\ block_cache = <<>>
    /\ raidz_req = NoRequest
    /\ IdleUnless({"pool", "raidz"})

NextCache ==
    \/ \E s \in CacheSectors, ovf \in OverflowOutcomes : CacheReadSector(s, ovf)
    \/ \E s \in CacheSectors, data \in CacheData, ovf \in OverflowOutcomes :
          CacheWriteSector(s, data, ovf)
    \/ \E o \in CacheOffsets, n \in {1, asize + 1} : CacheRead(o, n)
    \/ \E o \in CacheOffsets, data \in CacheData : CacheWrite(o, data)

SpecCache == InitCache /\ [][NextCache]_vars

\* What a read of the leaves gives for a sector, without the cache.
UncachedSector(sector_index) == read_sector(<<>>, sector_index)

\* Every entry of the sector cache is what the leaves hold for its sector.
CacheEntriesAreCurrent ==
    \A i \in 1..Len(sector_cache) :
        LET u == UncachedSector(sector_cache[i].key)
        IN  u.ok /\ u.data = sector_cache[i].val

\* The last call was a read that succeeded, and returned what a read of the
\* leaves without the cache returns now.
LastReadIsCurrent ==
    /\ raidz_req.op = "read_sector" /\ raidz_req.res = "ok" =>
           raidz_req.data = UncachedSector(raidz_req.offset).data
    /\ raidz_req.op = "read" /\ raidz_req.res = "ok" =>
           raidz_req.data = RaidzReadFrom(<<>>, raidz_req.offset,
                                          raidz_req.amount).data

\* C27: the sector cache is transparent: for any sequence of read_sector,
\* write_sector, read and write calls through one VdevRaidz every read
\* returns the bytes a read of the leaves without the cache would return at
\* that moment, and no entry of the cache is stale or was never written.
SectorCacheIsTransparent ==
    machine = "cache" => CacheEntriesAreCurrent /\ LastReadIsCurrent

\* With no sector in the cache whose device offset wrapped, a call that
\* names a sector whose device offset fits a u64 keeps the cache current,
\* and a read returns what the leaves hold.
CallBelowOverflowKeepsCacheCurrent ==
    (machine = "cache" /\ CacheEntriesAreCurrent
        /\ (\A i \in 1..Len(sector_cache) :
               ~SectorOverflows(sector_cache[i].key))
        /\ (raidz_req'.op \in {"read_sector", "write_sector"} =>
               ~SectorOverflows(raidz_req'.offset))) =>
        CacheEntriesAreCurrent' /\ LastReadIsCurrent'

SectorCacheIsTransparentBelowOverflow ==
    [][CallBelowOverflowKeepsCacheCurrent]_vars

\* A write through a sector whose device offset wrapped has changed the
\* leaf under a cached sector.
WroteThroughWrappedSector ==
    /\ machine = "cache"
    /\ raidz_req.op = "write_sector" /\ raidz_req.res = "ok"
    /\ SectorOverflows(raidz_req.offset)
    /\ ~CacheEntriesAreCurrent

(***************************************************************************)
(* bin/recover.rs main: the loop that copies the blocks of the file to     *)
(* recovered-file.bin.                                                     *)
(***************************************************************************)
\* file_block_size: the 128 KiB of the source are one unit here.
file_block_size == DvaUnit

\* file_size / file_block_size
nblocks_in_file == 3

\* The number of bad blocks at which the loop gives up (100 in the source).
TooManyBadBlocks == 2

\* One iteration of `for block_id in 0..nblocks_in_file`.
RecoverBlock(ovf) ==
    /\ machine = "recover"
    /\ recover_pc = "loop"
    /\ recover_block_id < nblocks_in_file
    /\ IF Len(bad_blocks) >= TooManyBadBlocks
       THEN /\ recover_pc' = "done"
            /\ UNCHANGED <<output_file, bad_blocks, recover_block_id,
                           sector_cache, block_cache, yolo_cache,
                           yolo_cache_file>>
       ELSE \E out \in aggregated_read_block(file_list, 1, recover_block_id,
                                             CallState, ovf) :
               /\ sector_cache' = out.sector_cache
               /\ block_cache' = out.block_cache
               /\ yolo_cache' = out.yolo_cache
               /\ yolo_cache_file' = out.yolo_cache_file
               /\ IF out.res = "some"
                  THEN /\ output_file' = output_file \o out.data
                       /\ recover_block_id' = recover_block_id + 1
                       /\ UNCHANGED <<bad_blocks, recover_pc>>
                  ELSE IF out.res = "none"
                  THEN /\ bad_blocks' = Append(bad_blocks, recover_block_id)
                       /\ output_file' =
                              output_file \o [i \in 1..file_block_size |-> 0]
                       /\ recover_block_id' = recover_block_id + 1
                       /\ UNCHANGED recover_pc
                  ELSE /\ recover_pc' = "panic"
                       /\ UNCHANGED <<output_file, bad_blocks, recover_block_id>>
    /\ UNCHANGED <<machine, devices, ndevices, nparity, asize, vdev0,
                   yolo_feature, checksum_map, zio_req, zio_ops, recoverRest>>

\* The loop is over: the bad blocks are printed.
RecoverEnd ==
    /\ machine = "recover"
    /\ recover_pc = "loop"
    /\ recover_block_id = nblocks_in_file
    /\ recover_pc' = "done"
    /\ UNCHANGED <<machine, poolVars, zioVars, output_file, bad_blocks,
                   recover_block_id, recoverRest>>

InitRecover ==
    /\ machine = "recover"
    /\ vdev0 = "raidz"
    /\ yolo_feature = FALSE
    /\ ndevices = 4
    /\ nparity = 1
    /\ asize = DvaUnit
    /\ devices = PoolFromLinear(LinearBytes, ndevices, asize)
    /\ checksum_map = <<>>
    /\ sector_cache = <<>>
    /\ block_cache = <<>>
    /\ yolo_cache = LoadYoloCache({})
    /\ yolo_cache_file = {}
    /\ zio_req = ZioNone
    /\ zio_ops = 0
    /\ file_list \in {<<f>> : f \in Fragments}
                        \cup {<<f, g>> : f \in Fragments, g \in Fragments}
    /\ dnode_req = DNodeNone
    /\ output_file = <<>>
    /\ bad_blocks = <<>>
    /\ recover_block_id = 0
    /\ recover_pc = "loop"
    /\ IdleUnless({"pool", "zio", "dnode", "recover"})

NextRecover ==
    \/ \E ovf \in DNodeOverflows : RecoverBlock(ovf)
    \/ RecoverEnd

SpecRecover == InitRecover /\ [][NextRecover]_vars

\* C28: at the start of the iteration for block b exactly
\* b * file_block_size bytes have been written to recovered-file.bin, so
\* every block, recovered or replaced by zeros, lands at offset
\* b * file_block_size, whatever FileDNode fragments were loaded.
RecoverBlocksLandAtTheirOffset ==
    (machine = "recover" /\ recover_pc = "loop"
        /\ recover_block_id < nblocks_in_file) =>
        Len(output_file) = recover_block_id * file_block_size

\* The same when every FileDNode fragment has blocks of file_block_size
\* bytes: read_block asserts the length of what it returns.
RecoverBlocksLandAtTheirOffsetForOneBlockSize ==
    (machine = "recover" /\ recover_pc = "loop"
        /\ \A k \in 1..Len(file_list) :
              file_list[k].kind = "FileDNode" =>
                  parse_data_block_size(file_list[k].dnode) = file_block_size) =>
        Len(output_file) = recover_block_id * file_block_size

(***************************************************************************)
(* bin/surgeon.rs main: which squashfs blocks the loop tries to recover.   *)
(* The records it writes for them are the subject of the patch above.      *)
(***************************************************************************)
\* The size of a file block: 128 KiB in the source.
SurgeonFileBlock == 8

\* overlaps(range1, range2) of two half-open ranges
overlaps(start1, end1, start2, end2) == start1 < end2 /\ start2 < end1

\* The file offset up to which the loop is given squashfs blocks.
MaxAttemptOffset == 128

\* What the loop decided for one squashfs block.
AttemptRequest(off, ondisk_size, is_compressed, trigger, res) ==
    [off |-> off, ondisk_size |-> ondisk_size, is_compressed |-> is_compressed,
     trigger |-> trigger, res |-> res]

\* The body of the loop for one squashfs block; `recovery` is how the
\* search through the combinations ends when it is made.
SurgeonAttempt(ondisk_size, is_compressed, recovery) ==
    /\ machine = "attempt"
    /\ attempt_req.res # "panic"
    /\ attempt_off + ondisk_size <= MaxAttemptOffset
    /\ LET first_file_block_number == attempt_off \div SurgeonFileBlock
           last_file_block_number ==
               (attempt_off + ondisk_size) \div SurgeonFileBlock
           bad == {b \in first_file_block_number..last_file_block_number :
                      b \in bad_blocks_info}
           file_block_number == CHOOSE b \in bad : \A c \in bad : b <= c
           request(trigger, res) ==
               AttemptRequest(attempt_off, ondisk_size, is_compressed, trigger,
                              res)
       IN  IF ondisk_size = 0
           THEN /\ attempt_req' = request(-1, "continue")
                /\ UNCHANGED attempt_off
           ELSE IF ~is_compressed \/ bad = {}
           THEN /\ attempt_req' = request(-1, "skip")
                /\ attempt_off' = attempt_off + ondisk_size
           ELSE IF ~overlaps(attempt_off, attempt_off + ondisk_size,
                             file_block_number * SurgeonFileBlock,
                             file_block_number * SurgeonFileBlock
                                 + SurgeonFileBlock)
           THEN /\ attempt_req' = request(file_block_number, "panic")
                /\ UNCHANGED attempt_off
           ELSE IF recovery = "panic"
           THEN /\ attempt_req' = request(file_block_number, "panic")
                /\ UNCHANGED attempt_off
           ELSE /\ attempt_req' = request(file_block_number, "attempt")
                /\ attempt_off' = attempt_off + ondisk_size
    /\ UNCHANGED <<machine, bad_blocks_info, poolVars, zioVars, attemptRest>>

\* The block numbers bad-block-info.json can name.
AttemptBlocks == 12..16

AttemptSizes == {0, 1, 7, 8, 9, 17}

InitAttempt ==
    /\ machine = "attempt"
    /\ bad_blocks_info \in SUBSET AttemptBlocks
    /\ attempt_off = 96
    /\ attempt_req = [res |-> "none"]
    /\ IdleUnless({"attempt"})

NextAttempt ==
    \E n \in AttemptSizes, is_compressed \in BOOLEAN,
       recovery \in {"ok", "panic"} :
        SurgeonAttempt(n, is_compressed, recovery)

SpecAttempt == InitAttempt /\ [][NextAttempt]_vars

\* The last squashfs block had a bad block in first..=last.
AttemptTriggered ==
    /\ machine = "attempt"
    /\ attempt_req.res \in {"attempt", "panic"}

\* C29: for every compressed chunk at file offset off with on-disk size
\* n > 0 and every set of bad block numbers, the chunk range
\* [off, off + n) overlaps the range of the bad block that triggers
\* recovery, so the assertion never fails: recovery is attempted only for
\* chunks that contain at least one byte of a bad block.
RecoveryOnlyForChunksWithBadBytes ==
    AttemptTriggered =>
        \E x \in attempt_req.off..(attempt_req.off + attempt_req.ondisk_size - 1) :
            x \div SurgeonFileBlock = attempt_req.trigger

\* What the loop does guarantee: the block that triggers is bad and lies
\* between the block of the first byte of the chunk and the block of the
\* byte after its last.
TriggerIsBadAndInRange ==
    AttemptTriggered =>
        /\ attempt_req.trigger \in bad_blocks_info
        /\ attempt_req.off \div SurgeonFileBlock <= attempt_req.trigger
        /\ attempt_req.trigger <=
               (attempt_req.off + attempt_req.ondisk_size) \div SurgeonFileBlock

(***************************************************************************)
(* zio.rs DataVirtualAddress::dereference and NormalBlockPointer::         *)
(* dereference calling each other through gang headers, call by call.      *)
(***************************************************************************)
\* GangBlock::get_ondisk_size
GangBlockSize == 512

\* GangBlock::from_bytes_le: three block pointer slots, the padding, the
\* magic and the checksum.  Nothing compares the magic.
GangBlockFromBytesLe(data) ==
    IF Len(data) < GangBlockSize
    THEN [some |-> FALSE]
    ELSE [some |-> TRUE,
          bps |-> [k \in 1..3 |->
                      BlockPointerFromBytesLe(
                          SubSeq(data, (k - 1) * BlockPointerSize + 1,
                                 k * BlockPointerSize))],
          magic |-> from_le_bytes(data, GangBlockSize - 39, 8),
          checksum |-> <<from_le_bytes(data, GangBlockSize - 31, 8),
                         from_le_bytes(data, GangBlockSize - 23, 8),
                         from_le_bytes(data, GangBlockSize - 15, 8),
                         from_le_bytes(data, GangBlockSize - 7, 8)>>]

\* The calls the stack of the thread has room for.
MaxGangDepth == 8

NoReturn == [res |-> "none", data |-> <<>>]

TopFrame == gang_stack[Len(gang_stack)]

\* The call on top of the stack returns to its caller.
GangReturn(res, data) ==
    /\ gang_stack' = SubSeq(gang_stack, 1, Len(gang_stack) - 1)
    /\ gang_ret' = [res |-> res, data |-> data]
    /\ gang_pc' = IF Len(gang_stack) = 1 THEN "returned" ELSE "run"

\* The call on top of the stack makes a call.
GangPush(frame) ==
    IF Len(gang_stack) >= MaxGangDepth
    THEN /\ gang_pc' = "stack_overflow"
         /\ UNCHANGED <<gang_stack, gang_ret>>
    ELSE /\ gang_stack' = Append(gang_stack, frame)
         /\ gang_ret' = NoReturn
         /\ UNCHANGED gang_pc

\* The call on top of the stack goes on with its frame changed.
GangContinue(frame) ==
    /\ gang_stack' = [gang_stack EXCEPT ![Len(gang_stack)] = frame]
    /\ gang_ret' = NoReturn
    /\ UNCHANGED gang_pc

\* dva.dereference(vdevs, size) is called from outside.
GangCall(dva, size) ==
    /\ machine = "gang"
    /\ gang_pc = "idle"
    /\ gang_stack' = <<[kind |-> "dva", dva |-> dva, size |-> size]>>
    /\ gang_ret' = NoReturn
    /\ gang_pc' = "run"
    /\ UNCHANGED <<machine, poolVars, zioVars, gangRest>>

\* DataVirtualAddress::dereference up to the loop over the pointers of the
\* gang header: the raw read, the checksum of the header and its parsing.
DvaDereferenceEnter ==
    /\ machine = "gang"
    /\ gang_pc = "run"
    /\ TopFrame.kind = "dva"
    /\ LET f == TopFrame
           r == dereference_raw(sector_cache, f.dva, f.size)
           computed_checksum == try_checksum_block(r.data, "GangHeader")
           gang_block == GangBlockFromBytesLe(r.data)
       IN  /\ sector_cache' = r.cache
           /\ IF ~r.ok
              THEN GangReturn("err", <<>>)
              ELSE IF ~f.dva.is_gang
              THEN GangReturn("ok", r.data)
              ELSE IF ~computed_checksum.some \/ ~gang_block.some
              THEN GangReturn("err", <<>>)
              ELSE IF computed_checksum.sum # gang_block.checksum
              THEN GangReturn("err", <<>>)
              ELSE GangContinue([kind |-> "gang", dva |-> f.dva,
                                 size |-> f.size, bps |-> gang_block.bps,
                                 j |-> 1, gang_data |-> <<>>])
    /\ UNCHANGED <<machine, devices, ndevices, nparity, asize, block_cache,
                   zioVars, gangRest>>

\* The end of DataVirtualAddress::dereference of a gang DVA: gang_data is
\* cut to `size` and must have that length.
GangFinish(f) ==
    IF Len(f.gang_data) < f.size
    THEN GangReturn("err", <<>>)
    ELSE GangReturn("ok", SubSeq(f.gang_data, 1, f.size))

\* One turn of `for bp in gang_block.bps`: the pointer is dereferenced, or
\* its data is taken, or the loop ends.
GangLoop ==
    /\ machine = "gang"
    /\ gang_pc = "run"
    /\ TopFrame.kind = "gang"
    /\ LET f == TopFrame
           taken(data) == [f EXCEPT !.gang_data = @ \o data, !.j = @ + 1]
       IN  IF gang_ret.res = "ok"
           THEN GangContinue(taken(gang_ret.data))
           ELSE IF gang_ret.res = "err"
           THEN GangFinish(f)
           ELSE IF f.j > 3
           THEN GangFinish(f)
           ELSE IF ~f.bps[f.j].some
           THEN GangFinish(f)
           ELSE IF f.bps[f.j].embedded
           THEN IF embedded_dereference(f.bps[f.j]).res = "ok"
                THEN GangContinue(taken(embedded_dereference(f.bps[f.j]).data))
                ELSE GangFinish(f)
           ELSE GangPush([kind |-> "bp", bp |-> f.bps[f.j], i |-> 1])
    /\ UNCHANGED <<machine, poolVars, zioVars, gangRest>>

\* One turn of the loop of NormalBlockPointer::dereference over the DVAs:
\* the DVA is dereferenced, or what it returned is checked.
PointerLoop ==
    /\ machine = "gang"
    /\ gang_pc = "run"
    /\ TopFrame.kind = "bp"
    /\ ~yolo_feature
    /\ LET f == TopFrame
           bp == f.bp
           key == <<bp.checksum, bp.checksum_method>>
           next == [f EXCEPT !.i = @ + 1]
           computed_checksum == try_checksum_block(gang_ret.data,
                                                   bp.checksum_method)
           d == try_decompress_block(gang_ret.data, bp.compression_method,
                                     parse_logical_size(bp))
       IN  IF gang_ret.res = "err"
           THEN GangContinue(next) /\ UNCHANGED block_cache
           ELSE IF gang_ret.res = "ok"
           THEN IF \/ ~computed_checksum.some
                   \/ computed_checksum.sum # bp.checksum
                   \/ ~d.ok
                   \/ Len(d.data) # parse_logical_size(bp)
                THEN GangContinue(next) /\ UNCHANGED block_cache
                ELSE /\ GangReturn("ok", d.data)
                     /\ block_cache' = BlockCachePut(block_cache, key, d.data)
           ELSE IF f.i = 1 /\ BlockCacheHas(block_cache, key)
           THEN /\ GangReturn("ok", block_cache[LruIndex(block_cache, key)].val)
                /\ block_cache' = LruGet(block_cache, key)
           ELSE IF f.i > Len(bp.dvas)
           THEN GangReturn("err", <<>>) /\ UNCHANGED block_cache
           ELSE IF bp.dvas[f.i] = NoDva
           THEN GangContinue(next) /\ UNCHANGED block_cache
           ELSE /\ GangPush([kind |-> "dva", dva |-> bp.dvas[f.i],
                             size |-> parse_physical_size(bp)])
                /\ UNCHANGED block_cache
    /\ UNCHANGED <<machine, devices, ndevices, nparity, asize, sector_cache,
                   zioVars, gangRest>>

\* A word of four bytes.
WordBytes(n) ==
    <<n % 256, (n \div 256) % 256, (n \div 65536) % 256, n \div 16777216>>

\* A gang header with the three slots given whose fletcher4 is the checksum
\* it stores: the stored checksum and the magic are zero, and the last four
\* words of the padding bring the four sums to zero.
CraftedGangHeader(slots) ==
    LET body == slots[1] \o slots[2] \o slots[3]
                    \o [i \in 1..(GangBlockSize - 3 * BlockPointerSize - 56) |-> 0]
        s == do_fletcher4(body)
        neg(x) == (U64Mod - x) % U64Mod
        twice(x) == wrapping_add(x, x)
        thrice(x) == wrapping_add(x, twice(x))
        q1 == neg(wrapping_add(wrapping_add(s[1], s[2]),
                               wrapping_add(s[3], s[4])))
        q2 == wrapping_add(s[2], wrapping_add(twice(s[3]), thrice(s[4])))
        q3 == neg(wrapping_add(s[3], thrice(s[4])))
        q4 == s[4]
    IN  body \o WordBytes(q1) \o WordBytes(q2)
             \o WordBytes(q3) \o WordBytes(q4)
             \o [i \in 1..40 |-> 0]

\* The same slots in a header whose stored checksum is not its fletcher4.
BrokenGangHeader(slots) ==
    slots[1] \o slots[2] \o slots[3]
        \o [i \in 1..(GangBlockSize - 3 * BlockPointerSize) |-> 0]

\* The vdev holds two gang headers and one block of data behind them.
GangDataBlock == [i \in 1..GangBlockSize |-> IF i % 4 = 1 THEN (i \div 4) % 5 ELSE 0]

GangHeaderOffsets == {0, GangBlockSize}

GangDataOffset == 2 * GangBlockSize

\* What a slot of a gang header may hold: nothing, the pointer of the data
\* block, or a pointer with a gang DVA that designates a gang header.
GangSlotChoices ==
    {[i \in 1..BlockPointerSize |-> 0],
     PointerBytes(BlockPointer(<<DvaFrom(0, GangDataOffset, FALSE)>>,
                               do_fletcher4(GangDataBlock), "Fletcher4", "Off",
                               GangBlockSize, GangBlockSize))}
        \cup {PointerBytes(BlockPointer(<<DvaFrom(0, off, TRUE)>>,
                                        do_fletcher4(GangDataBlock), "Fletcher4",
                                        "Off", GangBlockSize, GangBlockSize)) :
                 off \in GangHeaderOffsets}

GangHeaders(slots) == {CraftedGangHeader(slots), BrokenGangHeader(slots)}

InitGang ==
    /\ machine = "gang"
    /\ vdev0 = "file"
    /\ yolo_feature = FALSE
    /\ ndevices = 0 /\ nparity = 0 /\ asize = 0
    /\ checksum_map = <<>>
    /\ sector_cache = <<>>
    /\ block_cache = <<>>
    /\ yolo_cache = LoadYoloCache({})
    /\ yolo_cache_file = {}
    /\ zio_req = ZioNone
    /\ zio_ops = 0
    /\ \E a1 \in GangSlotChoices, a2 \in GangSlotChoices, b1 \in GangSlotChoices :
       \E first \in GangHeaders(<<a1, a2, [i \in 1..BlockPointerSize |-> 0]>>),
          second \in GangHeaders(<<b1, [i \in 1..BlockPointerSize |-> 0],
                                   [i \in 1..BlockPointerSize |-> 0]>>) :
          devices = [d \in {0} |-> LeafOf(first \o second \o GangDataBlock)]
    /\ gang_stack = <<>>
    /\ gang_ret = NoReturn
    /\ gang_pc = "idle"
    /\ IdleUnless({"pool", "zio", "gang"})

NextGang ==
    \/ \E off \in GangHeaderOffsets \cup {GangDataOffset}, is_gang \in BOOLEAN,
          size \in {DvaUnit, GangBlockSize} :
          GangCall(DvaFrom(0, off, is_gang), size)
    \/ DvaDereferenceEnter
    \/ GangLoop
    \/ PointerLoop

SpecGang == InitGang /\ [][NextGang]_vars

\* The calls of dereference for a gang DVA that are on the stack.
GangCallsOnStack ==
    {i \in 1..Len(gang_stack) :
        gang_stack[i].kind \in {"gang", "dva"} /\ gang_stack[i].dva.is_gang}

\* A dereference of a gang DVA is made while a dereference of the same DVA
\* for the same size has not returned.  The vdev does not change and the
\* block cache is written only when a pointer has been dereferenced, so the
\* inner call makes the same calls again.
GangCallInsideItself ==
    \E i, j \in GangCallsOnStack :
        /\ i < j
        /\ gang_stack[i].dva = gang_stack[j].dva
        /\ gang_stack[i].size = gang_stack[j].size

\* C30: DataVirtualAddress::dereference terminates for every DVA and
\* every device content: the recursion through gang headers is finite, also
\* when a gang header with a valid checksum of itself holds a pointer whose
\* DVA designates that gang header.  No call is made inside a call with
\* the same arguments, and the calls do not exhaust the stack.
GangDereferenceTerminates ==
    machine = "gang" => ~GangCallInsideItself /\ gang_pc # "stack_overflow"

\* The stack is exhausted only by a gang header that is dereferenced while
\* a dereference of the same header is on the stack, and a call that is
\* not inside itself nests no deeper than the headers of the vdev allow.
GangOverflowOnlyOnACycle ==
    /\ gang_pc = "stack_overflow" => GangCallInsideItself
    /\ ~GangCallInsideItself =>
           Cardinality(GangCallsOnStack) <= Cardinality(GangHeaderOffsets)

(***************************************************************************)
(* The whole program: one of the machines.                                 *)
(***************************************************************************)
Init ==
    InitLeaf \/ InitRaidz \/ InitZio \/ InitWalker \/ InitDNode \/ InitZap
    \/ InitPatch
    \/ InitTable
    \/ InitLabel
    \/ InitEmbedded
    \/ InitIndirect
    \/ InitDva
    \/ InitZapDump
    \/ InitUndelete
    \/ InitSweep
    \/ InitSlots
    \/ InitGraph
    \/ InitCache
    \/ InitRecover
    \/ InitAttempt
    \/ InitGang

Next ==
    NextLeaf \/ NextRaidz \/ NextZio \/ NextWalker \/ NextDNode \/ NextZap
    \/ NextPatch
    \/ NextTable
    \/ NextLabel
    \/ NextEmbedded
    \/ NextIndirect
    \/ NextDva
    \/ NextZapDump
    \/ NextUndelete
    \/ NextSweep
    \/ NextSlots
    \/ NextGraph
    \/ NextCache
    \/ NextRecover
    \/ NextAttempt
    \/ NextGang

Spec == Init /\ [][Next]_vars

=============================================================================
